---- MODULE Spec2Model ----
(***************************************************************************)
(* gosh (internal/shell + internal/workspace): the read / evaluate /       *)
(* persist loop of Shell.Run, the session Workspace, and the signal        *)
(* handler goroutine started by Run.                                       *)
(*                                                                         *)
(* Text is a sequence of tokens: a token is one line of Go code, one       *)
(* word, or one run of white space.  The main goroutine is cut into steps  *)
(* at its blocking calls (terminal read, Eval, WriteFile, Remove, the      *)
(* prompt's reads of stdin), because the handler goroutine runs while the  *)
(* main goroutine is blocked there.                                        *)
(***************************************************************************)
EXTENDS Integers, Sequences, FiniteSets, TLC

VARIABLES
    alive,        \* the process has not exited
    isTerminal,   \* term.IsTerminal(stdin)
    term,         \* terminal mode: "cooked" or "raw"
    pc,           \* position of the main goroutine
    ppc,          \* position of each goroutine in promptForCLIGeneration
    codeBlock,    \* Run's local codeBlock
    interpreter,  \* Shell.interpreter: the names it has defined
    history,      \* Shell.history
    codeBlocks,   \* Workspace.codeBlocks
    file,         \* internal/session_<ID>.go: Absent or its content
    tools,        \* the cmd/ tree: directory |-> its main.go
    out,          \* the last result line Run printed
    evalLog,      \* every Eval made by Run: <<[code, ok]>>, in order
    reloadLog,    \* the Evals made by the last reloadWorkspace
    typed,        \* per goroutine, the reads of stdin its exit prompt made
    \* the readers and the workspace API, taken on their own
    blockLines,   \* readCodeBlockBuffered / pkg readCodeBlock: lines
    firstLine,    \* readCodeBlockBuffered: firstLine
    curLine,      \* readCodeBlockBuffered: line, after TrimRight
    buffer,       \* readCodeBlockRaw: buffer
    lineBuffer,   \* readCodeBlockRaw: lineBuffer
    prevChar,     \* readCodeBlockRaw: prevChar
    ret,          \* what the last call returned
    rpc,          \* position of the caller of the reader
    nread,        \* reads of stdin made so far
    ch,           \* readCodeBlockRaw: buf[0], the byte last read
    call,         \* the last call made on the Workspace by a direct caller
    sessionID,    \* Workspace.sessionID, "none" before New has returned
    disk          \* the workspace root: the two directories and go.mod

readerVars == <<blockLines, firstLine, curLine, buffer, lineBuffer, prevChar,
                ch, ret, rpc, nread>>

wsVars == <<sessionID, disk>>

shellVars == <<alive, isTerminal, term, pc, ppc, codeBlock, interpreter,
               history, evalLog, reloadLog, typed>>

vars == <<alive, isTerminal, term, pc, ppc, codeBlock, interpreter,
          history, codeBlocks, file, tools, out, evalLog, reloadLog, typed,
          readerVars, call, wsVars>>

(***************************************************************************)
(* Bounds                                                                  *)
(***************************************************************************)
MaxSubmit == 3    \* blocks handed to Eval in one run of the process

(***************************************************************************)
(* Text                                                                    *)
(***************************************************************************)
WhiteSpace == {" ", "\n"}

RECURSIVE TrimLeft(_)
TrimLeft(s) ==
    IF s # <<>> /\ Head(s) \in WhiteSpace THEN TrimLeft(Tail(s)) ELSE s

RECURSIVE TrimRight(_)
TrimRight(s) ==
    IF s # <<>> /\ s[Len(s)] \in WhiteSpace
    THEN TrimRight(SubSeq(s, 1, Len(s) - 1)) ELSE s

\* strings.TrimSpace
TrimSpace(s) == TrimRight(TrimLeft(s))

RECURSIVE Fields(_)
\* strings.Fields: the white-space separated words
Fields(s) ==
    IF s = <<>> THEN <<>>
    ELSE IF Head(s) \in WhiteSpace THEN Fields(Tail(s))
    ELSE <<Head(s)>> \o Fields(Tail(s))

RECURSIVE SplitLines(_, _)
\* strings.Split(block, "\n"), cur being the line in progress
SplitLines(s, cur) ==
    IF s = <<>> THEN <<cur>>
    ELSE IF Head(s) = "\n" THEN <<cur>> \o SplitLines(Tail(s), <<>>)
    ELSE SplitLines(Tail(s), Append(cur, Head(s)))

(***************************************************************************)
(* The interpreter (yaegi), seen through Eval(code) -> error.  Its state   *)
(* is the set of names defined so far.  A block is compiled as a whole     *)
(* (syntax error, undefined name: nothing runs), then its statements run   *)
(* in order; a panic stops the run and keeps what ran before it.           *)
(***************************************************************************)
Stmts == {"x := 1", "fmt.Println(x)", "panic(x)"}

Defs(t) == IF t = "x := 1" THEN {"x"} ELSE {}
Uses(t) == IF t \in {"fmt.Println(x)", "panic(x)"} THEN {"x"} ELSE {}
Panics(t) == t = "panic(x)"

\* interp.New + Use(stdlib.Symbols) + Eval(`import "fmt"`)
NewInterpreter == {}

RECURSIVE Compiles(_, _)
Compiles(I, ss) ==
    IF ss = <<>> THEN TRUE
    ELSE /\ Head(ss) \in Stmts
         /\ Uses(Head(ss)) \subseteq I
         /\ Compiles(I \cup Defs(Head(ss)), Tail(ss))

RECURSIVE RunStmts(_, _)
RunStmts(I, ss) ==
    IF ss = <<>> THEN [ok |-> TRUE, interp |-> I]
    ELSE IF Panics(Head(ss)) THEN [ok |-> FALSE, interp |-> I]
    ELSE RunStmts(I \cup Defs(Head(ss)), Tail(ss))

\* interpreter.Eval(code): the error and the interpreter afterwards
Eval(I, code) ==
    IF Compiles(I, Fields(code)) THEN RunStmts(I, Fields(code))
    ELSE [ok |-> FALSE, interp |-> I]

(***************************************************************************)
(* The workspace on disk                                                   *)
(***************************************************************************)
Absent == [exists |-> FALSE, content |-> <<>>]
FileOf(c) == [exists |-> TRUE, content |-> c]

\* time.Now().Format("20060102_150405") at workspace.New
SessionID == "20251026_150405"

SessionHeader == "package internal\n\nimport (\n\t\"fmt\"\n)\n\n"

RECURSIVE SessionBody(_)
SessionBody(blocks) ==
    IF blocks = <<>> THEN <<>>
    ELSE <<"// Block\n">> \o Head(blocks) \o <<"\n\n">>
         \o SessionBody(Tail(blocks))

\* AddCodeBlock, "Build file content"
SessionContent(blocks) == <<SessionHeader>> \o SessionBody(blocks)

\* os.WriteFile(path, content): written in full, or failed at open (the
\* file is as before), or failed after the truncating open (it is empty)
WriteFileOutcomes(old, content) ==
    { [err |-> FALSE, file |-> FileOf(content)],
      [err |-> TRUE,  file |-> old],
      [err |-> TRUE,  file |-> FileOf(<<>>)] }

\* os.Remove(path) as Clear reads it: a missing file is not an error
RemoveOutcomes(old) ==
    IF old.exists
    THEN { [err |-> FALSE, file |-> Absent], [err |-> TRUE, file |-> old] }
    ELSE { [err |-> FALSE, file |-> Absent] }

RECURSIVE FormatLines(_)
FormatLines(lines) ==
    IF lines = <<>> THEN <<>>
    ELSE (IF Head(lines) # <<>> THEN <<"\t\t">> \o Head(lines) \o <<"\n">>
          ELSE <<>>)
         \o FormatLines(Tail(lines))

RECURSIVE formatCodeBlocksForCLI(_)
formatCodeBlocksForCLI(blocks) ==
    IF blocks = <<>> THEN <<>>
    ELSE FormatLines(SplitLines(Head(blocks), <<>>))
         \o formatCodeBlocksForCLI(Tail(blocks))

\* Fault variant of MainContent: the run body is left empty
MainContent_NoBlocks(name, blocks) ==
    <<"package main ... var rootCmd = &cobra.Command{ Use: ">> \o name
    \o <<"Short: Generated CLI from gosh session ", SessionID,
         "Run: func(cmd *cobra.Command, args []string) { // Session code\n">>
    \o <<"}, } func main() { rootCmd.Execute() }">>

\* the main.go GenerateCobraCLI renders
MainContent(name, blocks) ==
    <<"package main ... var rootCmd = &cobra.Command{ Use: ">> \o name
    \o <<"Short: Generated CLI from gosh session ", SessionID,
         "Run: func(cmd *cobra.Command, args []string) { // Session code\n">>
    \o formatCodeBlocksForCLI(blocks)
    \o <<"}, } func main() { rootCmd.Execute() }">>

\* filepath.Clean of a path below rootPath, as the sequence of its
\* elements: "/" separates, "." is dropped, ".." removes the element before
RECURSIVE PathClean(_, _)
PathClean(p, acc) ==
    IF p = <<>> THEN acc
    ELSE IF Head(p) \in {"/", "."} THEN PathClean(Tail(p), acc)
    ELSE IF Head(p) = ".." /\ acc # <<>> /\ acc[Len(acc)] # ".."
    THEN PathClean(Tail(p), SubSeq(acc, 1, Len(acc) - 1))
    ELSE PathClean(Tail(p), Append(acc, Head(p)))

\* filepath.Join(rootPath, "cmd", name), relative to rootPath
CliDir(name) == PathClean(<<"cmd", "/">> \o name, <<>>)

MainOf(t, d) == IF d \in DOMAIN t THEN t[d] ELSE Absent
WithDir(t, d, f) == [e \in (DOMAIN t) \cup {d} |-> IF e = d THEN f ELSE t[e]]

\* Fault variant of GenerateCobraCLI: the empty name is not refused
GenerateCobraCLI_NoNameCheck(t, name, blocks) ==
    { [err |-> TRUE, tools |-> t] }
    \cup { [err |-> o.err,
            tools |-> WithDir(t, CliDir(name), o.file)] :
           o \in WriteFileOutcomes(MainOf(t, CliDir(name)),
                                   MainContent(name, blocks)) }

\* GenerateCobraCLI(name): the error and the cmd/ tree afterwards
GenerateCobraCLI(t, name, blocks) ==
    IF name = <<>> THEN { [err |-> TRUE, tools |-> t] }
    ELSE { [err |-> TRUE, tools |-> t] }                  \* MkdirAll failed
         \cup { [err |-> o.err,
                 tools |-> WithDir(t, CliDir(name), o.file)] :
                o \in WriteFileOutcomes(MainOf(t, CliDir(name)),
                                        MainContent(name, blocks)) }

\* reloadWorkspace's loop over GetCodeBlocks() on interpreter I: the Evals
\* made, whether all succeeded, and the interpreter reached
RECURSIVE Replay(_, _, _)
Replay(I, blocks, log) ==
    IF blocks = <<>> THEN [ok |-> TRUE, interp |-> I, log |-> log]
    ELSE LET r == Eval(I, Head(blocks))
             l == Append(log, [code |-> Head(blocks), before |-> I,
                               ok |-> r.ok])
         IN IF r.ok THEN Replay(r.interp, Tail(blocks), l)
            ELSE [ok |-> FALSE, interp |-> r.interp, log |-> l]

(***************************************************************************)
(* Inputs                                                                  *)
(***************************************************************************)
\* what the user types as one block, before any trimming
Inputs ==
    { <<"x := 1">>,
      <<"fmt.Println(x)">>,
      <<"this is not valid go code">>,
      <<"x := 1", "\n", "panic(x)">>,
      <<" ", "x := 1", " ">>,
      <<" ">>,
      <<"help">>, <<"clear">>, <<"reload">>,
      <<"quit">>, <<"exit", " ", "0">> }

\* the lines typed at the two questions of the exit prompt
Responses == { <<"y", "\n">>, <<" ", "YES", "\n">>, <<"n", "\n">>, <<"\n">> }
Names == { <<"demo", "\n">>, <<" ", "\n">> }

Lower(t) == CASE t = "YES" -> "yes" [] t = "Y" -> "y" [] OTHER -> t
\* strings.ToLower
ToLower(s) == [i \in 1..Len(s) |-> Lower(s[i])]

Threads == {"main", "handler"}

\* New, the content of a go.mod it writes
ModContent == <<"module gosh\n\ngo 1.25\n">>

NoDisk == [root |-> FALSE, internal |-> FALSE, gomod |-> Absent]
NewDisk == [root |-> TRUE, internal |-> TRUE, gomod |-> FileOf(ModContent)]

\* the workspace root before the first New of this process: nothing yet, or
\* what an earlier process left, its go.mod as written, edited since, or
\* emptied by a write that failed
InitialDisks ==
    { NoDisk, NewDisk,
      [NewDisk EXCEPT !.gomod = FileOf(<<"module gosh\n\ngo 1.25\n", "require x">>)],
      [NewDisk EXCEPT !.gomod = FileOf(<<>>)],
      [NewDisk EXCEPT !.internal = FALSE, !.gomod = Absent] }

\* Fault variant of NewOutcomes: go.mod is written whether it exists or not
NewOutcomes_Rewrites(d) ==
    IF ~d.root
    THEN { [err |-> TRUE, disk |-> d] }
         \cup { [err |-> TRUE, disk |-> [d EXCEPT !.root = TRUE]] }
         \cup { [err |-> o.err,
                 disk |-> [root |-> TRUE, internal |-> TRUE,
                           gomod |-> o.file]] :
                o \in WriteFileOutcomes(d.gomod, ModContent) }
    ELSE (IF d.internal THEN {} ELSE { [err |-> TRUE, disk |-> d] })
         \cup { [err |-> o.err,
                 disk |-> [root |-> TRUE, internal |-> TRUE,
                           gomod |-> o.file]] :
                o \in WriteFileOutcomes(d.gomod, ModContent) }

\* New: MkdirAll of the root, MkdirAll of internal, go.mod written when
\* Stat says it does not exist; the error and the disk afterwards
NewOutcomes(d) ==
    LET made == [d EXCEPT !.root = TRUE, !.internal = TRUE]
        gomod == IF d.gomod.exists
                 THEN { [err |-> FALSE, disk |-> made] }
                 ELSE { [err |-> o.err, disk |-> [made EXCEPT !.gomod = o.file]] :
                        o \in WriteFileOutcomes(d.gomod, ModContent) }
    IN IF ~d.root
       THEN { [err |-> TRUE, disk |-> d] }
            \cup { [err |-> TRUE, disk |-> [d EXCEPT !.root = TRUE]] }
            \cup gomod
       ELSE (IF d.internal THEN {} ELSE { [err |-> TRUE, disk |-> d] })
            \cup gomod

\* a Workspace returned by New in this process
WorkspaceCreated ==
    /\ sessionID = SessionID
    /\ disk \in { o.disk : o \in { r \in NewOutcomes(NoDisk) : ~r.err } }

\* no call has been made on the Workspace from outside Run
NoCall == [n |-> 0, op |-> "none", arg |-> <<>>, err |-> FALSE,
           prev |-> "none"]

\* no reader is being followed on its own
ReaderIdle ==
    /\ blockLines = <<>>
    /\ firstLine = TRUE
    /\ curLine = <<>>
    /\ buffer = <<>>
    /\ lineBuffer = <<>>
    /\ prevChar = "NUL"
    /\ ch = "none"
    /\ ret = [text |-> <<>>, shouldExit |-> FALSE, err |-> "nil"]
    /\ rpc = "idle"
    /\ nread = 0

(***************************************************************************)
(* Initial state: Shell.New, then Run up to its first read                 *)
(***************************************************************************)
Init ==
    /\ alive = TRUE
    /\ isTerminal \in BOOLEAN
    /\ term = "cooked"
    /\ pc = "read"
    /\ ppc = [t \in Threads |-> "idle"]
    /\ codeBlock = <<>>
    /\ interpreter = NewInterpreter
    /\ history = <<>>
    /\ codeBlocks = <<>>
    /\ file = Absent
    /\ tools = <<>>
    /\ out = "none"
    /\ evalLog = <<>>
    /\ reloadLog = <<>>
    /\ typed = [t \in Threads |-> <<>>]
    /\ ReaderIdle
    /\ call = NoCall
    /\ WorkspaceCreated

BuiltinCommands ==
    {"exit", "quit", "help", "history", "clear", "workspace", "reload"}

(***************************************************************************)
(* Shell.Run, main goroutine                                               *)
(***************************************************************************)
\* Fault variant of reloadWorkspace: s.interpreter is replaced by the new
\* interpreter before the blocks are replayed on it
reloadWorkspace_ReplacesFirst ==
    LET r == Replay(NewInterpreter, codeBlocks, <<>>)
    IN /\ reloadLog' = r.log
       /\ interpreter' = r.interp
       /\ out' = IF r.ok THEN "reloaded" ELSE "reloadError"

\* Fault variant of reloadWorkspace: the blocks are replayed on the current
\* interpreter instead of a new one
reloadWorkspace_OnCurrent ==
    LET r == Replay(interpreter, codeBlocks, <<>>)
    IN /\ reloadLog' = r.log
       /\ interpreter' = IF r.ok THEN r.interp ELSE interpreter
       /\ out' = IF r.ok THEN "reloaded" ELSE "reloadError"

\* reloadWorkspace: a new interpreter, every block re-evaluated on it, and
\* s.interpreter replaced only when all of them succeeded
reloadWorkspace ==
    LET r == Replay(NewInterpreter, codeBlocks, <<>>)
    IN /\ reloadLog' = r.log
       /\ interpreter' = IF r.ok THEN r.interp ELSE interpreter
       /\ out' = IF r.ok THEN "reloaded" ELSE "reloadError"

\* Fault variant of handleBuiltinCommand: clear also replaces the
\* interpreter by a new one
handleBuiltinCommand_ClearResetsInterpreter(command) ==
    CASE command \in {"exit", "quit"} ->
            /\ pc' = "prompt"
            /\ ppc' = [ppc EXCEPT !["main"] = "check"]
            /\ UNCHANGED <<interpreter, history, codeBlocks, out, reloadLog, typed>>
      [] command \in {"help", "history", "workspace"} ->
            /\ pc' = "read"
            /\ out' = command
            /\ UNCHANGED <<ppc, interpreter, history, codeBlocks, reloadLog, typed>>
      [] command = "clear" ->
            /\ history' = <<>>
            /\ codeBlocks' = <<>>
            /\ interpreter' = NewInterpreter
            /\ pc' = "remove"
            /\ UNCHANGED <<ppc, out, reloadLog, typed>>
      [] command = "reload" ->
            /\ reloadWorkspace
            /\ pc' = "read"
            /\ UNCHANGED <<ppc, history, codeBlocks, typed>>

\* handleBuiltinCommand, for a first word that is a command
handleBuiltinCommand(command) ==
    CASE command \in {"exit", "quit"} ->
            /\ pc' = "prompt"
            /\ ppc' = [ppc EXCEPT !["main"] = "check"]
            /\ UNCHANGED <<interpreter, history, codeBlocks, out, reloadLog, typed>>
      [] command \in {"help", "history", "workspace"} ->
            /\ pc' = "read"
            /\ out' = command
            /\ UNCHANGED <<ppc, interpreter, history, codeBlocks, reloadLog, typed>>
      [] command = "clear" ->
            \* s.history reset, Workspace.Clear up to its os.Remove
            /\ history' = <<>>
            /\ codeBlocks' = <<>>
            /\ pc' = "remove"
            /\ UNCHANGED <<ppc, interpreter, out, reloadLog, typed>>
      [] command = "reload" ->
            /\ reloadWorkspace
            /\ pc' = "read"
            /\ UNCHANGED <<ppc, history, codeBlocks, typed>>

\* Fault variant of RunBlock: the block goes to the evaluator without
\* being appended to the history
RunBlock_NoHistory(text) ==
    LET cb == TrimSpace(text)
        parts == Fields(cb)
    IN IF cb = <<>>
       THEN /\ pc' = "read"
            /\ UNCHANGED <<ppc, codeBlock, interpreter, history, codeBlocks,
                           out, reloadLog, typed>>
       ELSE IF parts[1] \in BuiltinCommands
       THEN /\ handleBuiltinCommand(parts[1])
            /\ UNCHANGED codeBlock
       ELSE /\ Len(evalLog) < MaxSubmit
            /\ codeBlock' = cb
            /\ pc' = "eval"
            /\ UNCHANGED <<ppc, interpreter, history, codeBlocks, out,
                           reloadLog, typed>>

\* Fault variant of RunBlock: a block is a command only when the whole
\* block is the command word
RunBlock_WholeBlock(text) ==
    LET cb == TrimSpace(text)
    IN IF cb = <<>>
       THEN /\ pc' = "read"
            /\ UNCHANGED <<ppc, codeBlock, interpreter, history, codeBlocks,
                           out, reloadLog, typed>>
       ELSE IF Len(cb) = 1 /\ cb[1] \in BuiltinCommands
       THEN /\ handleBuiltinCommand(cb[1])
            /\ UNCHANGED codeBlock
       ELSE /\ Len(evalLog) < MaxSubmit
            /\ history' = Append(history, cb)
            /\ codeBlock' = cb
            /\ pc' = "eval"
            /\ UNCHANGED <<ppc, interpreter, codeBlocks, out, reloadLog,
                           typed>>

\* Fault variant of RunBlock: the block is used as the reader returned it
RunBlock_NoTrim(text) ==
    LET cb == text
        parts == Fields(cb)
    IN IF cb = <<>>
       THEN /\ pc' = "read"
            /\ UNCHANGED <<ppc, codeBlock, interpreter, history, codeBlocks,
                           out, reloadLog, typed>>
       ELSE IF parts # <<>> /\ parts[1] \in BuiltinCommands
       THEN /\ handleBuiltinCommand(parts[1])
            /\ UNCHANGED codeBlock
       ELSE /\ Len(evalLog) < MaxSubmit
            /\ history' = Append(history, cb)
            /\ codeBlock' = cb
            /\ pc' = "eval"
            /\ UNCHANGED <<ppc, interpreter, codeBlocks, out, reloadLog,
                           typed>>

\* Fault variant of RunBlock: the block is added to the workspace list
\* before it is evaluated
RunBlock_PersistFirst(text) ==
    LET cb == TrimSpace(text)
        parts == Fields(cb)
    IN IF cb = <<>>
       THEN /\ pc' = "read"
            /\ UNCHANGED <<ppc, codeBlock, interpreter, history, codeBlocks,
                           out, reloadLog, typed>>
       ELSE IF parts[1] \in BuiltinCommands
       THEN /\ handleBuiltinCommand(parts[1])
            /\ UNCHANGED codeBlock
       ELSE /\ Len(evalLog) < MaxSubmit
            /\ history' = Append(history, cb)
            /\ codeBlocks' = Append(codeBlocks, cb)
            /\ codeBlock' = cb
            /\ pc' = "eval"
            /\ UNCHANGED <<ppc, interpreter, out, reloadLog, typed>>

\* Run's loop body once readCodeBlock returned (text, false, nil), up to
\* the call of execute
RunBlock(text) ==
    LET cb == TrimSpace(text)
        parts == Fields(cb)
    IN IF cb = <<>>
       THEN /\ pc' = "read"
            /\ UNCHANGED <<ppc, codeBlock, interpreter, history, codeBlocks,
                           out, reloadLog, typed>>
       ELSE IF parts[1] \in BuiltinCommands
       THEN /\ handleBuiltinCommand(parts[1])
            /\ UNCHANGED codeBlock
       ELSE /\ Len(evalLog) < MaxSubmit
            /\ history' = Append(history, cb)
            /\ codeBlock' = cb
            /\ pc' = "eval"
            /\ UNCHANGED <<ppc, interpreter, codeBlocks, out, reloadLog, typed>>

\* Run's `if shouldExit` and `if err == io.EOF`: the prompt, then return nil
RunExit ==
    /\ pc' = "prompt"
    /\ ppc' = [ppc EXCEPT !["main"] = "check"]
    /\ UNCHANGED <<codeBlock, interpreter, history, codeBlocks, out,
                   reloadLog, typed>>

\* readCodeBlock: the prompt, then raw mode on a terminal where MakeRaw
\* succeeds, the buffered reader otherwise
readCodeBlock ==
    /\ alive /\ pc = "read"
    /\ UNCHANGED <<readerVars, call, wsVars>>
    /\ \E makeRawOk \in BOOLEAN :
          IF isTerminal /\ makeRawOk
          THEN term' = "raw" /\ pc' = "raw"
          ELSE term' = term /\ pc' = "buffered"
    /\ out' = "none"
    /\ reloadLog' = <<>>
    /\ UNCHANGED <<alive, isTerminal, ppc, codeBlock, interpreter, history,
                   codeBlocks, file, tools, evalLog, typed>>

\* readCodeBlockRaw, a submit (LF alone, or CR then another byte) with a
\* non-empty buffer: Restore, TrimSpace, the exit/quit check
readCodeBlockRaw_Submit ==
    /\ alive /\ pc = "raw"
    /\ UNCHANGED <<readerVars, call, wsVars>>
    /\ term' = "cooked"
    /\ \E text \in Inputs :
          LET result == TrimSpace(text)
          IN IF result \in {<<"exit">>, <<"quit">>}
             THEN RunExit
             ELSE RunBlock(result)
    /\ UNCHANGED <<alive, isTerminal, file, tools, evalLog>>

\* readCodeBlockRaw returning io.EOF: Ctrl+C, Ctrl+D on empty buffers, or
\* end of input on stdin
readCodeBlockRaw_EOF ==
    /\ alive /\ pc = "raw"
    /\ UNCHANGED <<readerVars, call, wsVars>>
    /\ term' = "cooked"
    /\ RunExit
    /\ UNCHANGED <<alive, isTerminal, file, tools, evalLog>>

\* a read error other than io.EOF, raw or buffered: Run returns the error
\* and main exits
readCodeBlock_Error ==
    /\ alive /\ pc \in {"raw", "buffered"}
    /\ UNCHANGED <<readerVars, call, wsVars>>
    /\ term' = "cooked"
    /\ pc' = "done"
    /\ alive' = FALSE
    /\ UNCHANGED <<isTerminal, ppc, codeBlock, interpreter, history,
                   codeBlocks, file, tools, out, evalLog, reloadLog, typed>>

\* readCodeBlockBuffered returning a block: exit/quit as first line, a
\* command line, or the lines before an empty line joined by "\n"
readCodeBlockBuffered_Submit ==
    /\ alive /\ pc = "buffered"
    /\ UNCHANGED <<readerVars, call, wsVars>>
    /\ \E text \in Inputs :
          /\ TrimSpace(text) # <<>>
          /\ text[Len(text)] # "\n"
          /\ IF text \in {<<"exit">>, <<"quit">>}
             THEN RunExit
             ELSE RunBlock(text)
    /\ UNCHANGED <<alive, isTerminal, term, file, tools, evalLog>>

\* readCodeBlockBuffered returning io.EOF
readCodeBlockBuffered_EOF ==
    /\ alive /\ pc = "buffered"
    /\ UNCHANGED <<readerVars, call, wsVars>>
    /\ RunExit
    /\ UNCHANGED <<alive, isTerminal, term, file, tools, evalLog>>

\* Fault variant of execute: Run goes on to AddCodeBlock whatever Eval
\* returned
execute_IgnoringError ==
    /\ alive /\ pc = "eval"
    /\ UNCHANGED <<readerVars, call, wsVars>>
    /\ LET r == Eval(interpreter, codeBlock)
       IN /\ interpreter' = r.interp
          /\ evalLog' = Append(evalLog, [code |-> codeBlock, ok |-> r.ok])
          /\ pc' = "add" /\ UNCHANGED <<out, codeBlock>>
    /\ UNCHANGED <<alive, isTerminal, term, ppc, history, codeBlocks, file,
                   tools, reloadLog, typed>>

\* execute(codeBlock) and Run's branch on its error
execute ==
    /\ alive /\ pc = "eval"
    /\ UNCHANGED <<readerVars, call, wsVars>>
    /\ LET r == Eval(interpreter, codeBlock)
       IN /\ interpreter' = r.interp
          /\ evalLog' = Append(evalLog, [code |-> codeBlock, ok |-> r.ok])
          /\ IF r.ok
             THEN pc' = "add" /\ UNCHANGED <<out, codeBlock>>
             ELSE pc' = "read" /\ out' = "evalError" /\ codeBlock' = <<>>
    /\ UNCHANGED <<alive, isTerminal, term, ppc, history, codeBlocks, file,
                   tools, reloadLog, typed>>

\* Fault variant of AddCodeBlock_Append: the new block is put first
AddCodeBlock_Prepend ==
    /\ alive /\ pc = "add"
    /\ UNCHANGED <<readerVars, call, wsVars>>
    /\ codeBlocks' = <<codeBlock>> \o codeBlocks
    /\ pc' = "write"
    /\ UNCHANGED <<alive, isTerminal, term, ppc, codeBlock, interpreter,
                   history, file, tools, out, evalLog, reloadLog, typed>>

\* AddCodeBlock, the append to w.codeBlocks
AddCodeBlock_Append ==
    /\ alive /\ pc = "add"
    /\ UNCHANGED <<readerVars, call, wsVars>>
    /\ codeBlocks' = Append(codeBlocks, codeBlock)
    /\ pc' = "write"
    /\ UNCHANGED <<alive, isTerminal, term, ppc, codeBlock, interpreter,
                   history, file, tools, out, evalLog, reloadLog, typed>>

\* AddCodeBlock, the rewrite of the session file from the whole list, and
\* Run's message
AddCodeBlock_Write ==
    /\ alive /\ pc = "write"
    /\ UNCHANGED <<readerVars, call, wsVars>>
    /\ \E o \in WriteFileOutcomes(file, SessionContent(codeBlocks)) :
          /\ file' = o.file
          /\ out' = IF o.err THEN "warnSave" ELSE "added"
    /\ pc' = "read"
    /\ codeBlock' = <<>>
    /\ UNCHANGED <<alive, isTerminal, term, ppc, interpreter, history,
                   codeBlocks, tools, evalLog, reloadLog, typed>>

\* Fault variant of Clear_Remove: the error of os.Remove is dropped
Clear_Remove_IgnoringError ==
    /\ alive /\ pc = "remove"
    /\ UNCHANGED <<readerVars, call, wsVars>>
    /\ \E o \in RemoveOutcomes(file) :
          /\ file' = o.file
          /\ out' = "cleared"
    /\ pc' = "read"
    /\ UNCHANGED <<alive, isTerminal, term, ppc, codeBlock, interpreter,
                   history, codeBlocks, tools, evalLog, reloadLog, typed>>

\* Workspace.Clear, the os.Remove of the session file, and the message of
\* the clear command
Clear_Remove ==
    /\ alive /\ pc = "remove"
    /\ UNCHANGED <<readerVars, call, wsVars>>
    /\ \E o \in RemoveOutcomes(file) :
          /\ file' = o.file
          /\ out' = IF o.err THEN "clearError" ELSE "cleared"
    /\ pc' = "read"
    /\ UNCHANGED <<alive, isTerminal, term, ppc, codeBlock, interpreter,
                   history, codeBlocks, tools, evalLog, reloadLog, typed>>

(***************************************************************************)
(* promptForCLIGeneration, run by the main goroutine on exit and by the    *)
(* signal handler; both callers end the process when it returns            *)
(***************************************************************************)
\* Fault variant of Signal: the handler exits without the exit prompt
Signal_ExitsAtOnce ==
    /\ alive /\ ppc["handler"] = "idle"
    /\ UNCHANGED <<readerVars, call, wsVars>>
    /\ ppc' = [ppc EXCEPT !["handler"] = "done"]
    /\ alive' = FALSE
    /\ UNCHANGED <<isTerminal, term, pc, codeBlock, interpreter,
                   history, codeBlocks, file, tools, out, evalLog, reloadLog,
                   typed>>

\* the goroutine started by Run receives os.Interrupt or SIGTERM
Signal ==
    /\ alive /\ ppc["handler"] = "idle"
    /\ UNCHANGED <<readerVars, call, wsVars>>
    /\ ppc' = [ppc EXCEPT !["handler"] = "check"]
    /\ UNCHANGED <<alive, isTerminal, term, pc, codeBlock, interpreter,
                   history, codeBlocks, file, tools, out, evalLog, reloadLog, typed>>

\* reader.ReadString('\n') in the prompt of goroutine t returned (line, err)
Typed(t, line, err) ==
    typed' = [typed EXCEPT ![t] = Append(@, [line |-> line, err |-> err])]

\* os.Exit(0) in the handler and in handleBuiltinCommand, return nil in Run
ProcessExit(t) ==
    /\ alive' = FALSE
    /\ ppc' = [ppc EXCEPT ![t] = "done"]

\* len(s.workspace.GetCodeBlocks()) == 0
promptForCLIGeneration_Check(t) ==
    /\ alive /\ ppc[t] = "check"
    /\ UNCHANGED <<readerVars, call, wsVars>>
    /\ IF Len(codeBlocks) = 0
       THEN ProcessExit(t)
       ELSE ppc' = [ppc EXCEPT ![t] = "ask"] /\ UNCHANGED alive
    /\ UNCHANGED <<isTerminal, term, pc, codeBlock, interpreter, history,
                   codeBlocks, file, tools, out, evalLog, reloadLog, typed>>

\* the y/n answer
promptForCLIGeneration_Answer(t) ==
    /\ alive /\ ppc[t] = "ask"
    /\ UNCHANGED <<readerVars, call, wsVars>>
    /\ \/ ProcessExit(t) /\ Typed(t, <<>>, TRUE)            \* read error
       \/ \E line \in Responses :
             LET response == TrimSpace(ToLower(line))
             IN /\ Typed(t, line, FALSE)
                /\ IF response \in {<<"y">>, <<"yes">>}
                   THEN ppc' = [ppc EXCEPT ![t] = "name"] /\ UNCHANGED alive
                   ELSE ProcessExit(t)
    /\ UNCHANGED <<isTerminal, term, pc, codeBlock, interpreter, history,
                   codeBlocks, file, tools, out, evalLog, reloadLog>>

\* the tool name and GenerateCobraCLI
promptForCLIGeneration_Name(t) ==
    /\ alive /\ ppc[t] = "name"
    /\ UNCHANGED <<readerVars, call, wsVars>>
    /\ \/ UNCHANGED <<tools, out>> /\ Typed(t, <<>>, TRUE)  \* read error
       \/ \E line \in Names :
             LET name == TrimSpace(line)
             IN /\ Typed(t, line, FALSE)
                /\ IF name # <<>>
                   THEN \E g \in GenerateCobraCLI(tools, name, codeBlocks) :
                           /\ tools' = g.tools
                           /\ out' = IF g.err THEN "generateError"
                                     ELSE "generated"
                   ELSE UNCHANGED <<tools, out>>
    /\ ProcessExit(t)
    /\ UNCHANGED <<isTerminal, term, pc, codeBlock, interpreter, history,
                   codeBlocks, file, evalLog, reloadLog>>

Next ==
    \/ readCodeBlock
    \/ readCodeBlockRaw_Submit
    \/ readCodeBlockRaw_EOF
    \/ readCodeBlock_Error
    \/ readCodeBlockBuffered_Submit
    \/ readCodeBlockBuffered_EOF
    \/ execute
    \/ AddCodeBlock_Append
    \/ AddCodeBlock_Write
    \/ Clear_Remove
    \/ Signal
    \/ \E t \in Threads : promptForCLIGeneration_Check(t)
    \/ \E t \in Threads : promptForCLIGeneration_Answer(t)
    \/ \E t \in Threads : promptForCLIGeneration_Name(t)

Spec == Init /\ [][Next]_vars

(***************************************************************************)
(* readCodeBlockRaw byte by byte, and Run around it.  A text is the        *)
(* sequence of its bytes; a byte is written as its character, a control    *)
(* byte by its name.                                                       *)
(***************************************************************************)
MaxKeys == 5

\* bytes 32..126 the user types
Printable == {"e", "x", "i", "t", "{"}
\* 3, 4, 10, 13, 127 or 8, 9, 27, and "NUL" for any other byte outside 32..126
Control == {"^C", "^D", "LF", "CR", "BS", "TAB", "ESC", "NUL"}
Keys == Printable \cup Control

Spell(c) ==
    CASE c = "exit" -> <<"e", "x", "i", "t">>
      [] c = "quit" -> <<"q", "u", "i", "t">>
      [] c = "help" -> <<"h", "e", "l", "p">>
      [] c = "history" -> <<"h", "i", "s", "t", "o", "r", "y">>
      [] c = "clear" -> <<"c", "l", "e", "a", "r">>
      [] c = "workspace" -> <<"w", "o", "r", "k", "s", "p", "a", "c", "e">>
      [] c = "reload" -> <<"r", "e", "l", "o", "a", "d">>

\* strings.Fields(s)[0] of a text that does not start with white space
RECURSIVE FirstField(_)
FirstField(s) ==
    IF s = <<>> \/ Head(s) \in WhiteSpace THEN <<>>
    ELSE <<Head(s)>> \o FirstField(Tail(s))

EOFReturn == [text |-> <<>>, shouldExit |-> FALSE, err |-> "EOF"]

\* the submit of readCodeBlockRaw: TrimSpace and the exit/quit check
RawSubmit(all) ==
    LET result == TrimSpace(all)
    IN IF result \in {Spell("exit"), Spell("quit")}
       THEN [text |-> <<>>, shouldExit |-> TRUE, err |-> "nil"]
       ELSE [text |-> result, shouldExit |-> FALSE, err |-> "nil"]

\* a session Run may have built before the block being read
InitRaw ==
    /\ alive = TRUE
    /\ isTerminal = TRUE
    /\ term = "cooked"
    /\ pc = "read"
    /\ ppc = [t \in Threads |-> "idle"]
    /\ codeBlock = <<>>
    /\ \E blocks \in {<<>>, << <<"x := 1">> >>} :
          /\ codeBlocks = blocks
          /\ history = blocks
          /\ interpreter = IF blocks = <<>> THEN NewInterpreter ELSE {"x"}
          /\ file = IF blocks = <<>> THEN Absent
                    ELSE FileOf(SessionContent(blocks))
    /\ tools = <<>>
    /\ out = "none"
    /\ evalLog = <<>>
    /\ reloadLog = <<>>
    /\ typed = [t \in Threads |-> <<>>]
    /\ ReaderIdle
    /\ call = NoCall
    /\ WorkspaceCreated

rawFrame ==
    UNCHANGED <<alive, isTerminal, pc, ppc, codeBlock, interpreter, history,
                codeBlocks, file, tools, out, evalLog, reloadLog, typed,
                blockLines, firstLine, curLine, call, wsVars>>

\* readCodeBlock on a terminal: MakeRaw, fresh buffers
readCodeBlockRaw_Enter ==
    /\ alive /\ pc = "read" /\ rpc = "idle"
    /\ term' = "raw"
    /\ pc' = "raw"
    /\ rpc' = "reading"
    /\ buffer' = <<>>
    /\ lineBuffer' = <<>>
    /\ prevChar' = "NUL"
    /\ UNCHANGED <<alive, isTerminal, ppc, codeBlock, interpreter, history,
                   codeBlocks, file, tools, out, evalLog, reloadLog, typed,
                   blockLines, firstLine, curLine, ch, ret, nread, call, wsVars>>

Return(r) == rpc' = "returned" /\ ret' = r /\ term' = "cooked"
Continue == UNCHANGED <<rpc, ret, term>>

Submit ==
    /\ buffer' = buffer \o lineBuffer
    /\ UNCHANGED <<lineBuffer, prevChar>>
    /\ Return(RawSubmit(buffer \o lineBuffer))

NewPrompt(k) ==
    /\ buffer' = <<>>
    /\ lineBuffer' = <<>>
    /\ prevChar' = k
    /\ Continue

\* Fault variant of Case_CtrlC: Ctrl+C with text typed submits the text
Case_CtrlC_Submits ==
    IF buffer \o lineBuffer # <<>> THEN Submit
    ELSE /\ UNCHANGED <<buffer, lineBuffer, prevChar>>
         /\ Return(EOFReturn)

\* case 3
Case_CtrlC ==
    /\ UNCHANGED <<buffer, lineBuffer, prevChar>>
    /\ Return(EOFReturn)

\* Fault variant of Case_CtrlD: with text typed the byte is recorded as the
\* previous one
Case_CtrlD_SetsPrevChar ==
    IF buffer \o lineBuffer = <<>>
    THEN /\ UNCHANGED <<buffer, lineBuffer, prevChar>>
         /\ Return(EOFReturn)
    ELSE /\ UNCHANGED <<buffer, lineBuffer>>
         /\ prevChar' = "^D"
         /\ Continue

\* case 4: with text typed the byte is dropped and prevChar is not set
Case_CtrlD ==
    /\ UNCHANGED <<buffer, lineBuffer, prevChar>>
    /\ IF buffer \o lineBuffer = <<>> THEN Return(EOFReturn) ELSE Continue

\* Fault variant of Case_LF: LF alone starts a new line while a '{' typed
\* has no '}' after it
Case_LF_Balanced ==
    LET all == buffer \o lineBuffer
        open == \E i \in 1..Len(all) :
                   /\ all[i] = "{"
                   /\ \A j \in i..Len(all) : all[j] # "}"
    IN IF prevChar = "CR" \/ open
       THEN /\ buffer' = all \o <<"\n">>
            /\ lineBuffer' = <<>>
            /\ prevChar' = "LF"
            /\ Continue
       ELSE IF all # <<>> THEN Submit ELSE NewPrompt("LF")

\* case 10
Case_LF ==
    IF prevChar = "CR"
    THEN /\ buffer' = buffer \o lineBuffer \o <<"\n">>
         /\ lineBuffer' = <<>>
         /\ prevChar' = "LF"
         /\ Continue
    ELSE IF buffer \o lineBuffer # <<>> THEN Submit ELSE NewPrompt("LF")

\* case 13
Case_CR ==
    /\ prevChar' = "CR"
    /\ UNCHANGED <<buffer, lineBuffer>>
    /\ Continue

\* Fault variant of Case_Backspace: on an empty line the last byte of the
\* block buffer is removed
Case_Backspace_IntoBuffer ==
    /\ lineBuffer' = IF lineBuffer # <<>>
                     THEN SubSeq(lineBuffer, 1, Len(lineBuffer) - 1)
                     ELSE lineBuffer
    /\ buffer' = IF lineBuffer = <<>> /\ buffer # <<>>
                 THEN SubSeq(buffer, 1, Len(buffer) - 1)
                 ELSE buffer
    /\ prevChar' = "BS"
    /\ Continue

\* case 127, 8
Case_Backspace ==
    /\ lineBuffer' = IF lineBuffer # <<>>
                     THEN SubSeq(lineBuffer, 1, Len(lineBuffer) - 1)
                     ELSE lineBuffer
    /\ prevChar' = "BS"
    /\ UNCHANGED buffer
    /\ Continue

\* case 9
Case_Tab ==
    /\ lineBuffer' = lineBuffer \o <<" ", " ", " ", " ">>
    /\ prevChar' = "TAB"
    /\ UNCHANGED buffer
    /\ Continue

\* case 27
Case_ESC ==
    /\ prevChar' = "ESC"
    /\ UNCHANGED <<buffer, lineBuffer>>
    /\ Continue

\* default: a byte after a lone CR submits what was typed and is itself
\* dropped; otherwise a printable byte joins the line
Case_Default(k) ==
    IF prevChar = "CR" /\ buffer \o lineBuffer # <<>>
    THEN Submit
    ELSE /\ buffer' = IF prevChar = "CR" THEN <<>> ELSE buffer
         /\ lineBuffer' = (IF prevChar = "CR" THEN <<>> ELSE lineBuffer)
                          \o (IF k \in Printable THEN <<k>> ELSE <<>>)
         /\ prevChar' = k
         /\ Continue

\* one pass of the for loop: os.Stdin.Read delivers byte k, the switch
readCodeBlockRaw_Key(k) ==
    /\ alive /\ pc = "raw" /\ rpc = "reading"
    /\ nread < MaxKeys
    /\ nread' = nread + 1
    /\ ch' = k
    /\ rawFrame
    /\ CASE k = "^C" -> Case_CtrlC
         [] k = "^D" -> Case_CtrlD
         [] k = "LF" -> Case_LF
         [] k = "CR" -> Case_CR
         [] k = "BS" -> Case_Backspace
         [] k = "TAB" -> Case_Tab
         [] k = "ESC" -> Case_ESC
         [] OTHER -> Case_Default(k)

\* os.Stdin.Read fails: end of input, or another error
readCodeBlockRaw_ReadError(e) ==
    /\ alive /\ pc = "raw" /\ rpc = "reading"
    /\ nread < MaxKeys
    /\ nread' = nread + 1
    /\ ch' = "none"
    /\ rawFrame
    /\ UNCHANGED <<buffer, lineBuffer, prevChar>>
    /\ Return([text |-> <<>>, shouldExit |-> FALSE, err |-> e])

\* Fault variant of Run_AfterRead: end of input is taken for an empty block
Run_AfterRead_EOFContinues ==
    /\ alive /\ pc = "raw" /\ rpc = "returned"
    /\ rpc' = "idle"
    /\ LET cb == TrimSpace(ret.text)
           exit == /\ pc' = "prompt"
                   /\ ppc' = [ppc EXCEPT !["main"] = "check"]
                   /\ UNCHANGED <<alive, history, codeBlock>>
       IN IF ret.err = "EOF"
          THEN /\ pc' = "read"
               /\ UNCHANGED <<alive, ppc, history, codeBlock>>
          ELSE IF ret.err # "nil"
          THEN /\ pc' = "done"
               /\ alive' = FALSE
               /\ UNCHANGED <<ppc, history, codeBlock>>
          ELSE IF ret.shouldExit THEN exit
          ELSE IF cb = <<>>
          THEN /\ pc' = "read"
               /\ UNCHANGED <<alive, ppc, history, codeBlock>>
          ELSE IF FirstField(cb) \in {Spell("exit"), Spell("quit")}
          THEN exit
          ELSE /\ history' = Append(history, cb)
               /\ codeBlock' = cb
               /\ pc' = "eval"
               /\ UNCHANGED <<alive, ppc>>
    /\ UNCHANGED <<isTerminal, term, interpreter, codeBlocks, file, tools,
                   out, evalLog, reloadLog, typed, blockLines, firstLine,
                   curLine, buffer, lineBuffer, prevChar, ch, ret, nread,
                   call, wsVars>>

\* Run, from the return of readCodeBlock to the call of execute
Run_AfterRead ==
    /\ alive /\ pc = "raw" /\ rpc = "returned"
    /\ rpc' = "idle"
    /\ LET cb == TrimSpace(ret.text)
           exit == /\ pc' = "prompt"
                   /\ ppc' = [ppc EXCEPT !["main"] = "check"]
                   /\ UNCHANGED <<alive, history, codeBlock>>
       IN IF ret.err = "EOF" THEN exit
          ELSE IF ret.err # "nil"
          THEN /\ pc' = "done"
               /\ alive' = FALSE
               /\ UNCHANGED <<ppc, history, codeBlock>>
          ELSE IF ret.shouldExit THEN exit
          ELSE IF cb = <<>>
          THEN /\ pc' = "read"
               /\ UNCHANGED <<alive, ppc, history, codeBlock>>
          ELSE IF FirstField(cb) \in {Spell("exit"), Spell("quit")}
          THEN exit
          ELSE /\ history' = Append(history, cb)
               /\ codeBlock' = cb
               /\ pc' = "eval"
               /\ UNCHANGED <<alive, ppc>>
    /\ UNCHANGED <<isTerminal, term, interpreter, codeBlocks, file, tools,
                   out, evalLog, reloadLog, typed, blockLines, firstLine,
                   curLine, buffer, lineBuffer, prevChar, ch, ret, nread,
                   call, wsVars>>

NextRaw ==
    \/ readCodeBlockRaw_Enter
    \/ \E k \in Keys : readCodeBlockRaw_Key(k)
    \/ \E e \in {"EOF", "error"} : readCodeBlockRaw_ReadError(e)
    \/ Run_AfterRead
    \/ promptForCLIGeneration_Check("main")
    \/ promptForCLIGeneration_Answer("main")
    \/ promptForCLIGeneration_Name("main")

SpecRaw == InitRaw /\ [][NextRaw]_vars

(***************************************************************************)
(* readCodeBlockBuffered line by line, and Run around it.  A line is the   *)
(* sequence of its words and white-space runs, as ReadString delivers it   *)
(* with its terminator.                                                    *)
(***************************************************************************)
MaxLines == 4

\* what stdin holds between two line terminators
LineContents ==
    { <<>>, <<" ">>,
      <<"x := 1">>, <<"fmt.Println(x)">>,
      <<"help">>, <<"helper()">>,
      <<"clear">>, <<"clear", " ", "all">>, <<" ", "clear">>,
      <<"history", " ", ":= 5">>,
      <<"reload">>,
      <<"exit">>, <<"exit", " ", "0">> }

\* the lines ReadString('\n') can deliver
RawLines ==
    { c \o <<"\n">> : c \in LineContents } \cup { <<"x := 1", "\r", "\n">> }

\* strings.TrimRight(line, "\n\r")
RECURSIVE TrimRightNL(_)
TrimRightNL(s) ==
    IF s # <<>> /\ s[Len(s)] \in {"\n", "\r"}
    THEN TrimRightNL(SubSeq(s, 1, Len(s) - 1))
    ELSE s

\* the reserved words, or the comment mark, a word of the input starts with
PrefixesOf(w) ==
    CASE w \in {"help", "helper()", "helper("} -> {"help"}
      [] w = "history" -> {"history"}
      [] w = "clear" -> {"clear"}
      [] w = "workspace" -> {"workspace"}
      [] w = "reload" -> {"reload"}
      [] w = "// note" -> {"//"}
      [] OTHER -> {}

\* strings.HasPrefix(line, p), p a reserved word or "//"
HasPrefix(l, p) == l # <<>> /\ p \in PrefixesOf(Head(l))

\* strings.Join(lines, "\n")
RECURSIVE Join(_)
Join(ls) ==
    IF ls = <<>> THEN <<>>
    ELSE IF Len(ls) = 1 THEN Head(ls)
    ELSE Head(ls) \o <<"\n">> \o Join(Tail(ls))

InitBuffered ==
    /\ alive = TRUE
    /\ isTerminal \in BOOLEAN
    /\ term = "cooked"
    /\ pc = "read"
    /\ ppc = [t \in Threads |-> "idle"]
    /\ codeBlock = <<>>
    /\ \E blocks \in {<<>>, << <<"x := 1">> >>} :
          /\ codeBlocks = blocks
          /\ history = blocks
          /\ interpreter = IF blocks = <<>> THEN NewInterpreter ELSE {"x"}
          /\ file = IF blocks = <<>> THEN Absent
                    ELSE FileOf(SessionContent(blocks))
    /\ tools = <<>>
    /\ out = "none"
    /\ evalLog = <<>>
    /\ reloadLog = <<>>
    /\ typed = [t \in Threads |-> <<>>]
    /\ ReaderIdle
    /\ call = NoCall
    /\ WorkspaceCreated

bufferedFrame ==
    UNCHANGED <<alive, isTerminal, term, pc, ppc, codeBlock, interpreter,
                history, codeBlocks, file, tools, out, evalLog, reloadLog,
                typed, buffer, lineBuffer, prevChar, ch, call, wsVars>>

\* Fault variant of readCodeBlockBuffered_Enter: on a terminal the failure
\* of MakeRaw is returned to Run
readCodeBlockBuffered_Enter_FailsOnTerminal ==
    /\ alive /\ pc = "read" /\ rpc = "idle"
    /\ pc' = "buffered"
    /\ IF isTerminal
       THEN /\ rpc' = "returned"
            /\ ret' = [text |-> <<>>, shouldExit |-> FALSE, err |-> "error"]
       ELSE /\ rpc' = "reading"
            /\ ret' = ret
    /\ blockLines' = <<>>
    /\ firstLine' = TRUE
    /\ out' = "none"
    /\ reloadLog' = <<>>
    /\ UNCHANGED <<alive, isTerminal, term, ppc, codeBlock, interpreter,
                   history, codeBlocks, file, tools, evalLog, typed, curLine,
                   buffer, lineBuffer, prevChar, ch, nread, call, wsVars>>

\* readCodeBlock with stdin not a terminal, or on a terminal where MakeRaw
\* fails (the terminal stays as it was): lines empty, firstLine true
readCodeBlockBuffered_Enter ==
    /\ alive /\ pc = "read" /\ rpc = "idle"
    /\ pc' = "buffered"
    /\ rpc' = "reading"
    /\ blockLines' = <<>>
    /\ firstLine' = TRUE
    /\ out' = "none"
    /\ reloadLog' = <<>>
    /\ UNCHANGED <<alive, isTerminal, term, ppc, codeBlock, interpreter,
                   history, codeBlocks, file, tools, evalLog, typed, curLine,
                   buffer, lineBuffer, prevChar, ch, ret, nread, call, wsVars>>

ReturnLine(r) == rpc' = "returned" /\ ret' = r

\* Fault variant of readCodeBlockBuffered_Line: a first line is a command
\* only when it is exactly a reserved word
readCodeBlockBuffered_Line_ExactMatch(raw) ==
    /\ alive /\ pc = "buffered" /\ rpc = "reading"
    /\ nread < MaxLines
    /\ nread' = nread + 1
    /\ bufferedFrame
    /\ LET l == TrimRightNL(raw)
       IN /\ curLine' = l
          /\ IF firstLine /\ l \in {<<"exit">>, <<"quit">>}
             THEN /\ ReturnLine([text |-> <<>>, shouldExit |-> TRUE,
                                 err |-> "nil"])
                  /\ UNCHANGED <<blockLines, firstLine>>
             ELSE IF firstLine /\ l \in { <<c>> : c \in BuiltinCommands }
             THEN /\ ReturnLine([text |-> l, shouldExit |-> FALSE,
                                 err |-> "nil"])
                  /\ UNCHANGED <<blockLines, firstLine>>
             ELSE IF TrimSpace(l) = <<>>
             THEN IF blockLines # <<>>
                  THEN /\ ReturnLine([text |-> Join(blockLines),
                                      shouldExit |-> FALSE, err |-> "nil"])
                       /\ firstLine' = FALSE
                       /\ UNCHANGED blockLines
                  ELSE /\ firstLine' = TRUE
                       /\ UNCHANGED <<blockLines, rpc, ret>>
             ELSE /\ blockLines' = Append(blockLines, l)
                  /\ firstLine' = FALSE
                  /\ UNCHANGED <<rpc, ret>>

\* one pass of the for loop: ReadString delivers the line raw
readCodeBlockBuffered_Line(raw) ==
    /\ alive /\ pc = "buffered" /\ rpc = "reading"
    /\ nread < MaxLines
    /\ nread' = nread + 1
    /\ bufferedFrame
    /\ LET l == TrimRightNL(raw)
       IN /\ curLine' = l
          /\ IF firstLine /\ l \in {<<"exit">>, <<"quit">>}
             THEN /\ ReturnLine([text |-> <<>>, shouldExit |-> TRUE,
                                 err |-> "nil"])
                  /\ UNCHANGED <<blockLines, firstLine>>
             ELSE IF firstLine /\ \E p \in {"help", "history", "clear",
                                            "workspace", "reload"} :
                                     HasPrefix(l, p)
             THEN /\ ReturnLine([text |-> l, shouldExit |-> FALSE,
                                 err |-> "nil"])
                  /\ UNCHANGED <<blockLines, firstLine>>
             ELSE IF TrimSpace(l) = <<>>
             THEN IF blockLines # <<>>
                  THEN /\ ReturnLine([text |-> Join(blockLines),
                                      shouldExit |-> FALSE, err |-> "nil"])
                       /\ firstLine' = FALSE
                       /\ UNCHANGED blockLines
                  ELSE /\ firstLine' = TRUE
                       /\ UNCHANGED <<blockLines, rpc, ret>>
             ELSE /\ blockLines' = Append(blockLines, l)
                  /\ firstLine' = FALSE
                  /\ UNCHANGED <<rpc, ret>>

\* Fault variant of readCodeBlockBuffered_ReadError: at the end of the
\* input the lines accumulated are returned as a block
readCodeBlockBuffered_ReadError_ReturnsLines(e) ==
    /\ alive /\ pc = "buffered" /\ rpc = "reading"
    /\ nread < MaxLines
    /\ nread' = nread + 1
    /\ bufferedFrame
    /\ UNCHANGED <<blockLines, firstLine, curLine>>
    /\ IF e = "EOF" /\ blockLines # <<>>
       THEN ReturnLine([text |-> Join(blockLines), shouldExit |-> FALSE,
                        err |-> "nil"])
       ELSE ReturnLine([text |-> <<>>, shouldExit |-> FALSE, err |-> e])

\* ReadString fails: the input ended (with or without a last partial
\* line), or another error
readCodeBlockBuffered_ReadError(e) ==
    /\ alive /\ pc = "buffered" /\ rpc = "reading"
    /\ nread < MaxLines
    /\ nread' = nread + 1
    /\ bufferedFrame
    /\ UNCHANGED <<blockLines, firstLine, curLine>>
    /\ ReturnLine([text |-> <<>>, shouldExit |-> FALSE, err |-> e])

\* Run, from the return of readCodeBlock to the call of execute or to the
\* built-in command
Run_AfterReadBuffered ==
    /\ alive /\ pc = "buffered" /\ rpc = "returned"
    /\ rpc' = "idle"
    /\ IF ret.err = "EOF" \/ (ret.err = "nil" /\ ret.shouldExit)
       THEN RunExit /\ UNCHANGED alive
       ELSE IF ret.err # "nil"
       THEN /\ pc' = "done"
            /\ alive' = FALSE
            /\ UNCHANGED <<ppc, codeBlock, interpreter, history, codeBlocks,
                           out, reloadLog, typed>>
       ELSE RunBlock(ret.text) /\ UNCHANGED alive
    /\ UNCHANGED <<isTerminal, term, file, tools, evalLog, blockLines,
                   firstLine, curLine, buffer, lineBuffer, prevChar, ch, ret,
                   nread, call, wsVars>>

NextBuffered ==
    \/ readCodeBlockBuffered_Enter
    \/ \E raw \in RawLines : readCodeBlockBuffered_Line(raw)
    \/ \E e \in {"EOF", "error"} : readCodeBlockBuffered_ReadError(e)
    \/ Run_AfterReadBuffered
    \/ execute
    \/ AddCodeBlock_Append
    \/ AddCodeBlock_Write
    \/ Clear_Remove
    \/ promptForCLIGeneration_Check("main")
    \/ promptForCLIGeneration_Answer("main")
    \/ promptForCLIGeneration_Name("main")

SpecBuffered == InitBuffered /\ [][NextBuffered]_vars

(***************************************************************************)
(* pkg/shell: readCodeBlock with the balance heuristic, line by line, and  *)
(* Run around it                                                           *)
(***************************************************************************)
PkgLineContents ==
    { <<>>,
      <<"if true {">>, <<"}">>,
      <<"a()">>, <<"f(">>, <<")">>, <<"helper(">>,
      <<"1,">>, <<"// note">>,
      <<"x := 1">>,
      <<"help">>, <<"exit">> }

PkgRawLines == { c \o <<"\n">> : c \in PkgLineContents }

\* strings.Count(w, c) for a word w of the input
CountIn(w, c) ==
    CASE w = "if true {" -> IF c = "{" THEN 1 ELSE 0
      [] w = "}" -> IF c = "}" THEN 1 ELSE 0
      [] w = "a()" -> IF c \in {"(", ")"} THEN 1 ELSE 0
      [] w \in {"f(", "helper(", "helper()"} ->
            IF c = "(" \/ (c = ")" /\ w = "helper()") THEN 1 ELSE 0
      [] w = ")" -> IF c = ")" THEN 1 ELSE 0
      [] OTHER -> 0

\* strings.Count(block, c)
RECURSIVE Count(_, _)
Count(s, c) ==
    IF s = <<>> THEN 0 ELSE CountIn(Head(s), c) + Count(Tail(s), c)

isIncompleteBlock(block) ==
    \/ Count(block, "{") > Count(block, "}")
    \/ Count(block, "(") > Count(block, ")")

\* strings.HasSuffix(l, x), x one of "{" and ","
HasSuffix(l, x) ==
    /\ l # <<>>
    /\ l[Len(l)] \in (IF x = "{" THEN {"if true {"}
                      ELSE IF x = "," THEN {"1,"} ELSE {})

InitBalance ==
    /\ alive = TRUE
    /\ isTerminal \in BOOLEAN
    /\ term = "cooked"
    /\ pc = "read"
    /\ ppc = [t \in Threads |-> "idle"]
    /\ codeBlock = <<>>
    /\ \E blocks \in {<<>>, << <<"x := 1">> >>} :
          /\ codeBlocks = blocks
          /\ history = blocks
          /\ interpreter = IF blocks = <<>> THEN NewInterpreter ELSE {"x"}
          /\ file = IF blocks = <<>> THEN Absent
                    ELSE FileOf(SessionContent(blocks))
    /\ tools = <<>>
    /\ out = "none"
    /\ evalLog = <<>>
    /\ reloadLog = <<>>
    /\ typed = [t \in Threads |-> <<>>]
    /\ ReaderIdle
    /\ call = NoCall
    /\ WorkspaceCreated

\* pkg/shell readCodeBlock is entered: var lines []string
pkg_readCodeBlock_Enter ==
    /\ alive /\ pc = "read" /\ rpc = "idle"
    /\ pc' = "lines"
    /\ rpc' = "reading"
    /\ blockLines' = <<>>
    /\ out' = "none"
    /\ reloadLog' = <<>>
    /\ UNCHANGED <<alive, isTerminal, term, ppc, codeBlock, interpreter,
                   history, codeBlocks, file, tools, evalLog, typed,
                   firstLine, curLine, buffer, lineBuffer, prevChar, ch, ret,
                   nread, call, wsVars>>

\* one pass of the for loop of pkg/shell readCodeBlock
pkg_readCodeBlock_Line(raw) ==
    /\ alive /\ pc = "lines" /\ rpc = "reading"
    /\ nread < MaxLines
    /\ nread' = nread + 1
    /\ bufferedFrame
    /\ UNCHANGED firstLine
    /\ LET l == TrimRightNL(raw)
           ls == Append(blockLines, l)
           trimmed == TrimSpace(l)
       IN /\ curLine' = l
          /\ IF Len(blockLines) = 0 /\ l \in {<<"exit">>, <<"quit">>}
             THEN /\ ReturnLine([text |-> <<>>, shouldExit |-> TRUE,
                                 err |-> "nil"])
                  /\ UNCHANGED blockLines
             ELSE IF /\ Len(blockLines) = 0
                     /\ \E p \in {"help", "history", "clear", "workspace"} :
                           HasPrefix(l, p)
             THEN /\ ReturnLine([text |-> l, shouldExit |-> FALSE,
                                 err |-> "nil"])
                  /\ UNCHANGED blockLines
             ELSE /\ blockLines' = ls
                  /\ IF \/ trimmed = <<>>
                        \/ HasSuffix(trimmed, "{")
                        \/ HasSuffix(trimmed, ",")
                        \/ HasPrefix(trimmed, "//")
                     THEN UNCHANGED <<rpc, ret>>
                     ELSE IF isIncompleteBlock(Join(ls))
                     THEN UNCHANGED <<rpc, ret>>
                     ELSE ReturnLine([text |-> Join(ls), shouldExit |-> FALSE,
                                      err |-> "nil"])

\* ReadString fails
pkg_readCodeBlock_ReadError(e) ==
    /\ alive /\ pc = "lines" /\ rpc = "reading"
    /\ nread < MaxLines
    /\ nread' = nread + 1
    /\ bufferedFrame
    /\ UNCHANGED <<blockLines, firstLine, curLine>>
    /\ ReturnLine([text |-> <<>>, shouldExit |-> FALSE, err |-> e])

\* pkg/shell Run, from the return of readCodeBlock to execute or to the
\* built-in command
pkg_Run_AfterRead ==
    /\ alive /\ pc = "lines" /\ rpc = "returned"
    /\ rpc' = "idle"
    /\ IF ret.err = "EOF" \/ (ret.err = "nil" /\ ret.shouldExit)
       THEN RunExit /\ UNCHANGED alive
       ELSE IF ret.err # "nil"
       THEN /\ pc' = "done"
            /\ alive' = FALSE
            /\ UNCHANGED <<ppc, codeBlock, interpreter, history, codeBlocks,
                           out, reloadLog, typed>>
       ELSE RunBlock(ret.text) /\ UNCHANGED alive
    /\ UNCHANGED <<isTerminal, term, file, tools, evalLog, blockLines,
                   firstLine, curLine, buffer, lineBuffer, prevChar, ch, ret,
                   nread, call, wsVars>>

NextBalance ==
    \/ pkg_readCodeBlock_Enter
    \/ \E raw \in PkgRawLines : pkg_readCodeBlock_Line(raw)
    \/ \E e \in {"EOF", "error"} : pkg_readCodeBlock_ReadError(e)
    \/ pkg_Run_AfterRead

SpecBalance == InitBalance /\ [][NextBalance]_vars

(***************************************************************************)
(* The Workspace used directly, one call after another by one caller, as   *)
(* promptForCLIGeneration and the package's own callers use it             *)
(***************************************************************************)
MaxCalls == 4

\* the code blocks and tool names a direct caller passes
ApiBlocks == { <<"x := 1">>, <<"fmt.Println(x)">>, <<"x := 1", "\n", "panic(x)">> }
ApiNames == { <<>>, <<"demo">>, <<"tool">>, <<"..">>, <<"a", "/", "b">> }

Called(op, arg, err) ==
    call' = [n |-> call.n + 1, op |-> op, arg |-> arg, err |-> err,
             prev |-> call.op]

\* before New: no Workspace yet, no session file, no cmd/ entry
InitWorkspace ==
    /\ alive = TRUE
    /\ isTerminal = FALSE
    /\ term = "cooked"
    /\ pc = "idle"
    /\ ppc = [t \in Threads |-> "idle"]
    /\ codeBlock = <<>>
    /\ interpreter = NewInterpreter
    /\ history = <<>>
    /\ codeBlocks = <<>>
    /\ file = Absent
    /\ tools = <<>>
    /\ out = "none"
    /\ evalLog = <<>>
    /\ reloadLog = <<>>
    /\ typed = [t \in Threads |-> <<>>]
    /\ ReaderIdle
    /\ call = NoCall
    /\ sessionID = "none"
    /\ disk \in InitialDisks

\* New(): the first call that succeeds gives the Workspace followed here,
\* a later call gives another Workspace on the same root
Workspace_New ==
    /\ call.n < MaxCalls
    /\ \E o \in NewOutcomes(disk) :
          /\ disk' = o.disk
          /\ Called("New", <<>>, o.err)
          /\ sessionID' = IF sessionID = "none" /\ ~o.err THEN SessionID
                          ELSE sessionID
    /\ UNCHANGED <<shellVars, readerVars, codeBlocks, file, tools, out>>

\* the session file of this Workspace is `file` when its identity is the
\* one it was created with; under another identity the path is another file
SessionFile == IF sessionID = SessionID THEN file ELSE Absent
WriteSessionFile(f) == file' = IF sessionID = SessionID THEN f ELSE file

\* Workspace.AddCodeBlock(code)
Workspace_AddCodeBlock(code) ==
    /\ call.n < MaxCalls
    /\ sessionID # "none"
    /\ codeBlocks' = Append(codeBlocks, code)
    /\ \E o \in WriteFileOutcomes(SessionFile, SessionContent(codeBlocks')) :
          /\ WriteSessionFile(o.file)
          /\ Called("AddCodeBlock", code, o.err)
    /\ UNCHANGED <<shellVars, readerVars, tools, out, wsVars>>

\* Fault variant of Workspace_Clear: the list is emptied only once the file
\* is removed
Workspace_Clear_RemoveFirst ==
    /\ call.n < MaxCalls
    /\ sessionID # "none"
    /\ \E o \in RemoveOutcomes(SessionFile) :
          /\ WriteSessionFile(o.file)
          /\ Called("Clear", <<>>, o.err)
          /\ codeBlocks' = IF o.err THEN codeBlocks ELSE <<>>
    /\ UNCHANGED <<shellVars, readerVars, tools, out, wsVars>>

\* Fault variant of Workspace_Clear: the session starts over under a new
\* identity
Workspace_Clear_NewSession ==
    /\ call.n < MaxCalls
    /\ sessionID # "none"
    /\ codeBlocks' = <<>>
    /\ \E o \in RemoveOutcomes(SessionFile) :
          /\ WriteSessionFile(o.file)
          /\ Called("Clear", <<>>, o.err)
    /\ sessionID' = "20251026_150406"
    /\ UNCHANGED <<shellVars, readerVars, tools, out, disk>>

\* Workspace.Clear()
Workspace_Clear ==
    /\ call.n < MaxCalls
    /\ sessionID # "none"
    /\ codeBlocks' = <<>>
    /\ \E o \in RemoveOutcomes(SessionFile) :
          /\ WriteSessionFile(o.file)
          /\ Called("Clear", <<>>, o.err)
    /\ UNCHANGED <<shellVars, readerVars, tools, out, wsVars>>

\* Fault variant of Workspace_GenerateCobraCLI: the blocks emitted are taken
\* out of the session
Workspace_GenerateCobraCLI_Consumes(name) ==
    /\ call.n < MaxCalls
    /\ sessionID # "none"
    /\ \E g \in GenerateCobraCLI(tools, name, codeBlocks) :
          /\ tools' = g.tools
          /\ Called("GenerateCobraCLI", name, g.err)
          /\ codeBlocks' = IF g.err THEN codeBlocks ELSE <<>>
    /\ UNCHANGED <<shellVars, readerVars, file, out, wsVars>>

\* Workspace.GenerateCobraCLI(name)
Workspace_GenerateCobraCLI(name) ==
    /\ call.n < MaxCalls
    /\ sessionID # "none"
    /\ \E g \in GenerateCobraCLI(tools, name, codeBlocks) :
          /\ tools' = g.tools
          /\ Called("GenerateCobraCLI", name, g.err)
    /\ UNCHANGED <<shellVars, readerVars, codeBlocks, file, out, wsVars>>

NextWorkspace ==
    \/ Workspace_New
    \/ \E code \in ApiBlocks : Workspace_AddCodeBlock(code)
    \/ Workspace_Clear
    \/ \E name \in ApiNames : Workspace_GenerateCobraCLI(name)

SpecWorkspace == InitWorkspace /\ [][NextWorkspace]_vars

(***************************************************************************)
(* Vocabulary of the properties                                            *)
(***************************************************************************)
RECURSIVE IsSubseq(_, _)
\* a can be obtained from b by deleting elements
IsSubseq(a, b) ==
    IF a = <<>> THEN TRUE
    ELSE IF b = <<>> THEN FALSE
    ELSE IF Head(a) = Head(b) THEN IsSubseq(Tail(a), Tail(b))
    ELSE IsSubseq(a, Tail(b))

RECURSIVE AcceptedOf(_)
\* the codes of the successful Evals of a log, in order
AcceptedOf(log) ==
    IF log = <<>> THEN <<>>
    ELSE (IF Head(log).ok THEN <<Head(log).code>> ELSE <<>>)
         \o AcceptedOf(Tail(log))

\* the Evals Run completed since the last clear command: history holds one
\* entry per block handed to execute since then (the one being evaluated
\* at pc = "eval" included)
LogSinceClear ==
    LET n == IF pc = "eval" THEN Len(history) - 1 ELSE Len(history)
    IN SubSeq(evalLog, Len(evalLog) - n + 1, Len(evalLog))

RECURSIVE ParseBlocks(_, _)
ParseBlocks(s, cur) ==
    IF s = <<>> THEN <<>>
    ELSE IF Head(s) = "// Block\n" THEN ParseBlocks(Tail(s), <<>>)
    ELSE IF Head(s) = "\n\n" THEN <<cur>> \o ParseBlocks(Tail(s), <<>>)
    ELSE ParseBlocks(Tail(s), Append(cur, Head(s)))

\* the blocks a session file holds, read back from its text
FileBlocks(f) ==
    IF f.exists /\ f.content # <<>> THEN ParseBlocks(Tail(f.content), <<>>)
    ELSE <<>>

HasFailedEval == \E i \in 1..Len(evalLog) : ~evalLog[i].ok

(***************************************************************************)
(* C1: a block whose Eval returned an error is never in GetCodeBlocks()    *)
(* nor in the session file: the block list and the blocks of the file are  *)
(* always drawn, in order, from the blocks whose Eval succeeded, and       *)
(* AddCodeBlock is only ever entered with the block whose Eval just        *)
(* succeeded.                                                              *)
(***************************************************************************)
C1_FailedBlockNeverPersisted ==
    /\ IsSubseq(codeBlocks, AcceptedOf(evalLog))
    /\ IsSubseq(FileBlocks(file), AcceptedOf(evalLog))
    /\ pc \in {"add", "write"} =>
          /\ evalLog # <<>>
          /\ evalLog[Len(evalLog)] = [code |-> codeBlock, ok |-> TRUE]

C1_Witness ==
    /\ pc = "read" /\ out = "added"
    /\ \E i \in 1..Len(evalLog) :
          /\ ~evalLog[i].ok
          /\ \A j \in 1..Len(codeBlocks) : codeBlocks[j] # evalLog[i].code
          /\ \A j \in 1..Len(FileBlocks(file)) :
                FileBlocks(file)[j] # evalLog[i].code

(***************************************************************************)
(* C2: between operations GetCodeBlocks() is exactly the sequence of the   *)
(* blocks accepted since the last clear, in submission order, and the      *)
(* session file written by a successful AddCodeBlock holds exactly these   *)
(* blocks in that order (so none of the rejected ones).                    *)
(***************************************************************************)
C2_BlocksInSubmissionOrder ==
    /\ pc \notin {"add"} => codeBlocks = AcceptedOf(LogSinceClear)
    /\ out = "added" =>
          /\ FileBlocks(file) = AcceptedOf(LogSinceClear)
          /\ file.content = SessionContent(codeBlocks)

C2_Witness ==
    /\ out = "added"
    /\ Len(codeBlocks) >= 2
    /\ codeBlocks[1] # codeBlocks[2]
    /\ \E i \in 1..Len(LogSinceClear) : ~LogSinceClear[i].ok

(***************************************************************************)
(* C3: evaluate first, persist second.  No step taken before or during     *)
(* the evaluation of a block changes the block list or the session file;   *)
(* AddCodeBlock is entered only from an Eval of that block that returned   *)
(* no error; the list only grows by the append of that block inside        *)
(* AddCodeBlock, after which control returns to the top of the loop.       *)
(***************************************************************************)
C3_EvaluateThenPersist ==
    [][ /\ (pc = "eval" \/ pc' = "eval") =>
              codeBlocks' = codeBlocks /\ file' = file
        /\ (pc' = "add" /\ pc # "add") =>
              /\ pc = "eval"
              /\ evalLog' = Append(evalLog, [code |-> codeBlock, ok |-> TRUE])
              /\ codeBlock' = codeBlock
        /\ (codeBlocks' # codeBlocks /\ codeBlocks' # <<>>) =>
              /\ pc = "add" /\ pc' = "write"
              /\ codeBlocks' = Append(codeBlocks, codeBlock)
        /\ (pc = "write" /\ pc' # "write") => pc' = "read"
        /\ file' # file => pc \in {"write", "remove"}
      ]_vars

C3_Witness ==
    /\ pc = "write"
    /\ codeBlocks[Len(codeBlocks)] = codeBlock
    /\ evalLog[Len(evalLog)] = [code |-> codeBlock, ok |-> TRUE]
    /\ HasFailedEval

(***************************************************************************)
(* C4: the persisted block list is always replayable: evaluating           *)
(* GetCodeBlocks() in order on a new interpreter, as reloadWorkspace does, *)
(* succeeds in every reachable state.                                      *)
(***************************************************************************)
C4_AlwaysReplayable == Replay(NewInterpreter, codeBlocks, <<>>).ok

(***************************************************************************)
(* C5: AddCodeBlock is transactional: the step of AddCodeBlock in which    *)
(* the write of the session file fails leaves the block list as it was     *)
(* before the call (without the block appended at its entry) and the file  *)
(* as it was; the step in which it succeeds keeps the appended block and   *)
(* writes the file of the whole list.                                      *)
(***************************************************************************)
C5_AppendTransactional ==
    [][ pc = "write" /\ pc' = "read" =>
           IF out' = "warnSave"
           THEN /\ codeBlocks' = SubSeq(codeBlocks, 1, Len(codeBlocks) - 1)
                /\ file' = file
           ELSE /\ codeBlocks' = codeBlocks
                /\ file' = FileOf(SessionContent(codeBlocks))
      ]_vars

(***************************************************************************)
(* C6: between operations the session file is a complete snapshot of the   *)
(* block list: it is absent exactly when nothing was appended since        *)
(* creation or the last Clear, and when it exists its blocks are           *)
(* GetCodeBlocks().                                                        *)
(***************************************************************************)
C6_FileIsSnapshot ==
    pc \notin {"write", "remove"} =>
        /\ file.exists <=> codeBlocks # <<>>
        /\ file.exists => FileBlocks(file) = codeBlocks

(***************************************************************************)
(* C7: after a Clear() that returned no error, GetCodeBlocks() is empty    *)
(* and the session file does not exist.                                    *)
(***************************************************************************)
C7_ClearEmpties ==
    out = "cleared" => codeBlocks = <<>> /\ ~file.exists

C7_Witness ==
    /\ out = "cleared"
    /\ \E i \in 1..Len(evalLog) : evalLog[i].ok
    /\ Len(AcceptedOf(evalLog)) >= 2

(***************************************************************************)
(* C8: a reload evaluates the session's blocks and no other, in insertion  *)
(* order, each on the interpreter left by the one before, the first on a   *)
(* new interpreter; it evaluates all N of them when none fails; when one   *)
(* fails it stops there and reports the error; in both cases the block     *)
(* list and the session file are left as they were.                        *)
(***************************************************************************)
C8_ReloadReplaysInOrder ==
    [][ (out' \in {"reloaded", "reloadError"} /\ out' # out) =>
          /\ codeBlocks' = codeBlocks
          /\ file' = file
          /\ Len(reloadLog') <= Len(codeBlocks)
          /\ \A i \in 1..Len(reloadLog') :
                /\ reloadLog'[i].code = codeBlocks[i]
                /\ reloadLog'[i].before =
                      IF i = 1 THEN NewInterpreter
                      ELSE Eval(reloadLog'[i-1].before,
                                reloadLog'[i-1].code).interp
                /\ reloadLog'[i].ok =
                      Eval(reloadLog'[i].before, reloadLog'[i].code).ok
                /\ i < Len(reloadLog') => reloadLog'[i].ok
          /\ out' = "reloaded" =>
                /\ Len(reloadLog') = Len(codeBlocks)
                /\ \A i \in 1..Len(reloadLog') : reloadLog'[i].ok
          /\ out' = "reloadError" =>
                /\ reloadLog' # <<>>
                /\ ~reloadLog'[Len(reloadLog')].ok
      ]_vars

C8_Witness ==
    /\ out = "reloadError"
    /\ Len(reloadLog) < Len(codeBlocks)
    /\ interpreter # NewInterpreter

(***************************************************************************)
(* C9: raw mode is scoped: whenever the main goroutine is outside the raw  *)
(* read loop, and whenever the process has ended (by return, by error or   *)
(* by the signal handler's os.Exit), the terminal is in the mode it had    *)
(* before MakeRaw.                                                         *)
(***************************************************************************)
C9_RawModeRestored ==
    (pc # "raw" \/ ~alive) => term = "cooked"

(***************************************************************************)
(* C10: the handler goroutine never accesses the block list while the      *)
(* main goroutine is inside AddCodeBlock, inside Clear or inside its own   *)
(* termination prompt.                                                     *)
(***************************************************************************)
HandlerAccess ==
    \/ ppc["handler"] = "check" /\ ppc'["handler"] # "check"
    \/ ppc["handler"] = "name" /\ tools' # tools

C10_HandlerNeverConcurrent ==
    [][ HandlerAccess => pc \notin {"write", "remove", "prompt"} ]_vars

(***************************************************************************)
(* C11: a delivered signal makes the handler take the termination path of  *)
(* end-of-input: promptForCLIGeneration (no question when the session is   *)
(* empty, the save question when it is not), and the process ends with     *)
(* the prompt; the handler never leaves the prompt in another way.  Once   *)
(* the prompt's questions are answered the process has exited.             *)
(***************************************************************************)
PromptPath(t) ==
    /\ (ppc[t] = "check" /\ ppc'[t] # "check") =>
          IF codeBlocks = <<>>
          THEN ppc'[t] = "done" /\ ~alive' /\ typed' = typed
          ELSE ppc'[t] = "ask" /\ typed' = typed
    /\ (ppc[t] = "ask" /\ ppc'[t] # "ask") =>
          \/ ppc'[t] = "name"
          \/ ppc'[t] = "done" /\ ~alive'
    /\ (ppc[t] = "name" /\ ppc'[t] # "name") =>
          ppc'[t] = "done" /\ ~alive'

C11_SignalTakesExitPath ==
    /\ [][ /\ (ppc["handler"] = "idle" /\ ppc'["handler"] # "idle") =>
                 ppc'["handler"] = "check" /\ alive'
           /\ (ppc["main"] = "idle" /\ ppc'["main"] # "idle") =>
                 ppc'["main"] = "check" /\ alive'
           /\ PromptPath("handler")
           /\ PromptPath("main")
         ]_vars
    /\ (ppc["handler"] # "idle") ~> ~alive

C11_Witness ==
    /\ ~alive
    /\ ppc["handler"] = "done"
    /\ Len(typed["handler"]) = 2
    /\ pc \notin {"prompt", "done"}

\* the goroutine scheduler runs the handler, and the user answers the
\* questions the prompt asks
FairSpec ==
    /\ Spec
    /\ \A t \in Threads :
          /\ WF_vars(promptForCLIGeneration_Check(t))
          /\ WF_vars(promptForCLIGeneration_Answer(t))
          /\ WF_vars(promptForCLIGeneration_Name(t))

(***************************************************************************)
(* C12: exit prompt protocol.  A tool is emitted only if the session       *)
(* holds at least one block, the answer read (trimmed, lower-cased) is y   *)
(* or yes and the trimmed name read is not empty; a goroutine that has     *)
(* finished its prompt has ended the process.                              *)
(***************************************************************************)
AnsweredYes(t) ==
    /\ Len(typed[t]) = 2
    /\ ~typed[t][1].err
    /\ TrimSpace(ToLower(typed[t][1].line)) \in {<<"y">>, <<"yes">>}
    /\ ~typed[t][2].err
    /\ TrimSpace(typed[t][2].line) # <<>>

ToolEmitted == \E d \in DOMAIN tools : tools[d].exists

C12_ExitPromptProtocol ==
    /\ ToolEmitted =>
          /\ codeBlocks # <<>>
          /\ \E t \in Threads : AnsweredYes(t)
    /\ \A t \in Threads : ppc[t] = "done" => ~alive

(***************************************************************************)
(* C16: every text handed to the evaluator is non-empty and has no white   *)
(* space at either end; a block that is empty once trimmed brings Run      *)
(* back to the top of its loop with no evaluation, no history entry and    *)
(* no change of the workspace.                                             *)
(***************************************************************************)
Trimmed(s) ==
    s # <<>> /\ Head(s) \notin WhiteSpace /\ s[Len(s)] \notin WhiteSpace

C16_EvaluatedTextTrimmed ==
    /\ [](/\ \A i \in 1..Len(evalLog) : Trimmed(evalLog[i].code)
          /\ \A i \in 1..Len(history) : Trimmed(history[i])
          /\ pc = "eval" => Trimmed(codeBlock))
    /\ [][ (pc \in {"raw", "buffered"} /\ pc' = "read" /\ out' = "none") =>
              UNCHANGED <<history, evalLog, interpreter, codeBlocks, file>>
         ]_vars

C16_Witness ==
    /\ pc = "eval"
    /\ codeBlock = <<"x := 1">>
    /\ ~isTerminal

(***************************************************************************)
(* C20: GenerateCobraCLI called with the empty name returns an error and   *)
(* leaves the cmd/ tree and the session file exactly as they were: no      *)
(* directory and no file is created.                                       *)
(***************************************************************************)
C20_EmptyNameCreatesNothing ==
    [][ (call'.n # call.n /\ call'.op = "GenerateCobraCLI"
         /\ call'.arg = <<>>) =>
           /\ call'.err
           /\ tools' = tools
           /\ file' = file
           /\ codeBlocks' = codeBlocks
      ]_vars

C20_Witness ==
    /\ call.op = "GenerateCobraCLI"
    /\ call.arg = <<>>
    /\ call.err
    /\ codeBlocks # <<>>
    /\ <<"cmd", "demo">> \in DOMAIN tools

(***************************************************************************)
(* C14: in raw mode the hard-submit event (LF not preceded by CR, or a     *)
(* lone CR followed by an ordinary byte) received with text typed always   *)
(* makes the reader return: the committed lines plus the current line,     *)
(* trimmed, whatever the balance of braces and parentheses (or the exit    *)
(* directive when that text is exit or quit).                              *)
(***************************************************************************)
HardSubmit ==
    /\ rpc = "reading" /\ nread' = nread + 1
    /\ \/ ch' = "LF" /\ prevChar # "CR"
       \/ ch' \in Printable \cup {"NUL"} /\ prevChar = "CR"

SessionKept == UNCHANGED <<history, codeBlock, codeBlocks, file, evalLog>>

C17_CancelDiscardsText ==
    /\ [][ (rpc = "reading" /\ nread' = nread + 1 /\ ch' = "^C") =>
              /\ rpc' = "returned"
              /\ ret' = EOFReturn
              /\ SessionKept
         ]_vars
    /\ [][ (rpc = "returned" /\ ch = "^C" /\ rpc' # rpc) =>
              pc' = "prompt" /\ SessionKept
         ]_vars
    /\ [][ pc = "prompt" => pc' = "prompt" /\ SessionKept ]_vars

C17_Witness ==
    /\ ch = "^C"
    /\ buffer = <<"{", "\n">>
    /\ lineBuffer = <<"e">>
    /\ pc = "prompt"
    /\ history = <<>>

(***************************************************************************)
(* C18: Ctrl+C with nothing typed ends the session by the end-of-input     *)
(* path: the reader returns end-of-input, Run runs the exit prompt (the    *)
(* question only when the session holds a block) and returns; no byte is   *)
(* read for a block after that.                                            *)
(***************************************************************************)
C18_CancelOnEmptyEndsSession ==
    /\ [][ (rpc = "reading" /\ nread' = nread + 1 /\ ch' = "^C"
            /\ buffer \o lineBuffer = <<>>) =>
              rpc' = "returned" /\ ret'.err = "EOF" /\ term' = "cooked"
         ]_vars
    /\ [][ (rpc = "returned" /\ ret.err = "EOF" /\ rpc' # rpc) =>
              /\ pc' = "prompt"
              /\ ppc'["main"] = "check"
              /\ alive'
         ]_vars
    /\ [][ PromptPath("main") ]_vars
    /\ [][ pc = "prompt" =>
              pc' = "prompt" /\ rpc' = "idle" /\ nread' = nread ]_vars

C18_Witness ==
    /\ ch = "^C"
    /\ buffer \o lineBuffer = <<>>
    /\ ppc["main"] = "done"
    /\ ~alive
    /\ codeBlocks # <<>>
    /\ Len(typed["main"]) = 1

(***************************************************************************)
(* C15 as claimed: the first line of a fresh block is returned at once     *)
(* exactly when it is exactly one of the seven reserved names, and a block *)
(* that is not exactly a reserved name ("clear all", "history := 5") is    *)
(* treated as code.                                                        *)
(***************************************************************************)
ReservedLines == { <<c>> : c \in BuiltinCommands }

\* a step of the reader that read a line (a failed read returns an error)
LineRead ==
    /\ pc = "buffered" /\ rpc = "reading"
    /\ nread' = nread + 1
    /\ ~(rpc' = "returned" /\ ret'.err # "nil")

FirstLineRead == firstLine /\ LineRead

Dispatch ==
    /\ pc = "buffered" /\ rpc = "returned" /\ rpc' = "idle"
    /\ ret.err = "nil" /\ ~ret.shouldExit
    /\ TrimSpace(ret.text) # <<>>

IsCode(r) ==
    /\ r.err = "nil" /\ ~r.shouldExit
    /\ TrimSpace(r.text) # <<>>
    /\ Fields(TrimSpace(r.text))[1] \notin BuiltinCommands

C19_EmptyLineSubmits ==
    [][ LineRead =>
           /\ (TrimSpace(curLine') = <<>> /\ blockLines # <<>>) =>
                 /\ rpc' = "returned"
                 /\ ret' = [text |-> Join(blockLines), shouldExit |-> FALSE,
                            err |-> "nil"]
           /\ (TrimSpace(curLine') = <<>> /\ blockLines = <<>>) =>
                 rpc' = "reading" /\ blockLines' = <<>> /\ firstLine'
           /\ (rpc' = "returned" /\ IsCode(ret')) =>
                 TrimSpace(curLine') = <<>> /\ blockLines # <<>>
      ]_vars

(***************************************************************************)
(* C13: the balance-heuristic reader never returns a block of code in      *)
(* which '{' outnumber '}' or '(' outnumber ')'; "if true {" then "}" is   *)
(* returned as one two-line block after the second line only, and "a()"    *)
(* alone is returned at once.                                              *)
(***************************************************************************)
PkgLineRead ==
    /\ pc = "lines" /\ rpc = "reading"
    /\ nread' = nread + 1
    /\ ~(rpc' = "returned" /\ ret'.err # "nil")

C13_NeverReturnedUnbalanced ==
    [][ PkgLineRead =>
           /\ (rpc' = "returned" /\ IsCode(ret')) =>
                 /\ Count(ret'.text, "{") <= Count(ret'.text, "}")
                 /\ Count(ret'.text, "(") <= Count(ret'.text, ")")
           /\ (blockLines = <<>> /\ curLine' = <<"if true {">>) =>
                 rpc' = "reading"
           /\ (blockLines = << <<"if true {">> >> /\ curLine' = <<"}">>) =>
                 /\ rpc' = "returned"
                 /\ ret'.text = <<"if true {", "\n", "}">>
           /\ (blockLines = <<>> /\ curLine' = <<"a()">>) =>
                 rpc' = "returned" /\ ret'.text = <<"a()">>
      ]_vars

(***************************************************************************)
(* C21: GenerateCobraCLI fails for every name that is not a single path    *)
(* element (a name holding a separator, or ".."), and every main.go it     *)
(* has written is cmd/<name>/main.go, directly under the root's cmd.       *)
(***************************************************************************)
ValidSegment(name) == Len(name) = 1 /\ name[1] \notin {"/", ".", ".."}

C21_InvalidNameFails ==
    /\ [][ (call'.n # call.n /\ call'.op = "GenerateCobraCLI"
            /\ ~ValidSegment(call'.arg)) =>
              call'.err /\ tools' = tools ]_vars
    /\ [](\A d \in DOMAIN tools : Len(d) = 2 /\ d[1] = "cmd")

(***************************************************************************)
(* C22: a successful GenerateCobraCLI(name) leaves cmd/<name>/main.go      *)
(* holding the fixed template (package main and the cobra root command     *)
(* before the run body, func main after it) and, in between, every line    *)
(* of every session block, unchanged, in session order, each after the     *)
(* indent and before a newline.                                            *)
(***************************************************************************)
RECURSIVE Flatten(_)
Flatten(ss) == IF ss = <<>> THEN <<>> ELSE Head(ss) \o Flatten(Tail(ss))

IsStmt(t) == t \in Stmts
CodeOf(s) == SelectSeq(s, IsStmt)

GenerateOk ==
    /\ call'.n # call.n
    /\ call'.op = "GenerateCobraCLI"
    /\ ~call'.err

C23_EmissionKeepsSession ==
    [][ (call'.n # call.n /\ call'.op = "GenerateCobraCLI") =>
           /\ codeBlocks' = codeBlocks
           /\ file' = file
           /\ sessionID' = sessionID
      ]_vars

C23_Witness ==
    /\ call.op = "GenerateCobraCLI"
    /\ call.prev = "GenerateCobraCLI"
    /\ call.err
    /\ call.arg = <<"demo">>
    /\ <<"cmd", "demo">> \in DOMAIN tools
    /\ tools[<<"cmd", "demo">>] = FileOf(<<>>)
    /\ Len(codeBlocks) = 1
    /\ file = FileOf(SessionContent(codeBlocks))

(***************************************************************************)
(* C24: the session identity is set when the Workspace is created and no   *)
(* call changes it; an AddCodeBlock after a Clear therefore writes the     *)
(* same session_<ID>.go the blocks before the Clear were written to.       *)
(***************************************************************************)
C24_SessionIdentityFixed ==
    /\ [][ sessionID # "none" => sessionID' = sessionID ]_vars
    /\ [](sessionID \in {"none", SessionID})
    /\ [][ (call'.n # call.n /\ call'.op = "AddCodeBlock" /\ ~call'.err) =>
              file' = FileOf(SessionContent(codeBlocks')) ]_vars

C24_Witness ==
    /\ call.op = "AddCodeBlock"
    /\ call.prev = "Clear"
    /\ ~call.err
    /\ sessionID = SessionID
    /\ codeBlocks = << <<"fmt.Println(x)">> >>
    /\ file = FileOf(SessionContent(codeBlocks))

(***************************************************************************)
(* C25: New() on a root where the root, the internal directory and go.mod  *)
(* exist succeeds and changes nothing on disk; no New() changes an         *)
(* existing go.mod, a session file or an emitted tool; after a New() that  *)
(* succeeded the root, the internal directory and go.mod exist.            *)
(***************************************************************************)
C25_NewIsIdempotent ==
    [][ (call'.n # call.n /\ call'.op = "New") =>
           /\ (disk.root /\ disk.internal /\ disk.gomod.exists) =>
                 ~call'.err /\ disk' = disk
           /\ disk.gomod.exists => disk'.gomod = disk.gomod
           /\ file' = file /\ tools' = tools /\ codeBlocks' = codeBlocks
           /\ ~call'.err =>
                 disk'.root /\ disk'.internal /\ disk'.gomod.exists
      ]_vars

C25_Witness ==
    /\ call.op = "New"
    /\ call.prev = "GenerateCobraCLI"
    /\ ~call.err
    /\ disk.gomod = FileOf(<<"module gosh\n\ngo 1.25\n", "require x">>)
    /\ file.exists
    /\ <<"cmd", "demo">> \in DOMAIN tools

(***************************************************************************)
(* C26: on a terminal where raw mode cannot be entered the block is read   *)
(* by the line-buffered reader: entering it returns no error and ends      *)
(* nothing, an empty line after lines submits them joined, exit or quit    *)
(* as first line asks to exit, and the only errors the reader returns are  *)
(* those of reading a line.                                                *)
(***************************************************************************)
C26_RawFailureFallsBack ==
    /\ [][ (isTerminal /\ pc = "read" /\ pc' # pc) =>
              /\ pc' = "buffered" /\ rpc' = "reading"
              /\ alive' /\ term' = "cooked" /\ ret' = ret
         ]_vars
    /\ [][ (isTerminal /\ pc = "buffered" /\ rpc = "reading"
            /\ rpc' = "returned" /\ ret'.err # "nil") =>
              nread' = nread + 1 /\ curLine' = curLine ]_vars
    /\ [][ (isTerminal /\ LineRead) =>
              /\ (TrimSpace(curLine') = <<>> /\ blockLines # <<>>) =>
                    /\ rpc' = "returned"
                    /\ ret' = [text |-> Join(blockLines),
                               shouldExit |-> FALSE, err |-> "nil"]
              /\ (firstLine /\ curLine' \in {<<"exit">>, <<"quit">>}) =>
                    rpc' = "returned" /\ ret'.shouldExit
              /\ (TrimSpace(curLine') = <<>> /\ blockLines = <<>>) =>
                    rpc' = "reading" /\ firstLine'
         ]_vars

C26_Witness ==
    /\ isTerminal
    /\ term = "cooked"
    /\ nread = 3
    /\ ret.text = <<"x := 1", "\n", "fmt.Println(x)">>
    /\ pc = "eval"
    /\ codeBlock = ret.text

(***************************************************************************)
(* C27: a block returned by the reader is run as a built-in command        *)
(* exactly when the first white-space separated word of its trimmed text   *)
(* is help, history, clear, workspace, reload, exit or quit.  A block run  *)
(* as a command is not evaluated, not appended to the history and not      *)
(* added to the workspace; any other block is appended to the history and  *)
(* handed to the evaluator, which evaluates it.  No text whose first word  *)
(* is reserved is ever in the evaluation log, the history or the stored    *)
(* blocks.                                                                 *)
(***************************************************************************)
FirstToken(b) == Fields(b)[1]

IsCommand(b) == Fields(b) # <<>> /\ FirstToken(b) \in BuiltinCommands

RanAsCommand ==
    /\ pc' \in {"read", "prompt", "remove"}
    /\ evalLog' = evalLog
    /\ interpreter' # interpreter => out' \in {"reloaded", "reloadError"}
    /\ history' \in {history, <<>>}
    /\ codeBlocks' \in {codeBlocks, <<>>}
    /\ file' = file
    /\ codeBlock' = codeBlock

C27_CommandIffFirstToken ==
    /\ [][ Dispatch =>
              LET b == TrimSpace(ret.text)
              IN IF IsCommand(b)
                 THEN /\ RanAsCommand
                      /\ FirstToken(b) \in {"exit", "quit"} <=> pc' = "prompt"
                      /\ FirstToken(b) = "clear" <=> pc' = "remove"
                      /\ FirstToken(b) \in {"help", "history", "workspace"} <=>
                            out' = FirstToken(b)
                 ELSE /\ pc' = "eval"
                      /\ codeBlock' = b
                      /\ history' = Append(history, b)
                      /\ out' = out
         ]_vars
    /\ [][ (pc = "eval" /\ pc' # pc) =>
              /\ Len(evalLog') = Len(evalLog) + 1
              /\ evalLog'[Len(evalLog')].code = codeBlock ]_vars
    /\ [](/\ \A i \in 1..Len(evalLog) : ~IsCommand(evalLog[i].code)
          /\ \A i \in 1..Len(history) : ~IsCommand(history[i])
          /\ \A i \in 1..Len(codeBlocks) : ~IsCommand(codeBlocks[i])
          /\ pc \in {"eval", "add", "write"} => ~IsCommand(codeBlock))

C27_Witness ==
    /\ ret.text = <<"clear", " ", "all">>
    /\ pc = "remove"
    /\ Len(evalLog) = 1
    /\ evalLog[1].code = <<"helper()">>
    /\ history = <<>>

(***************************************************************************)
(* C28: the raw reader as a machine with the states Idle and PendingCR.    *)
(* LF right after CR moves the current line and a newline into the block   *)
(* buffer and reading goes on; LF not right after CR submits the text      *)
(* typed when there is some; a byte other than LF right after CR submits   *)
(* the text typed before that byte when there is some (the bytes with a    *)
(* meaning of their own, Ctrl+C, Ctrl+D and a second CR, are left out);    *)
(* with no text typed a hard submit returns nothing and reading goes on    *)
(* with empty buffers.                                                     *)
(***************************************************************************)
KeyRead ==
    /\ pc = "raw" /\ rpc = "reading"
    /\ nread' = nread + 1
    /\ ch' # "none"

AfterCR == ch = "CR" /\ prevChar = "CR"

HardSubmitKey ==
    \/ ~AfterCR /\ ch' = "LF"
    \/ AfterCR /\ ch' \notin {"LF", "CR", "^C", "^D"}

C28_TwoStateMachine ==
    [][ KeyRead =>
          LET all == buffer \o lineBuffer
          IN /\ (AfterCR /\ ch' = "LF") =>
                   /\ buffer' = all \o <<"\n">>
                   /\ lineBuffer' = <<>>
                   /\ rpc' = "reading"
             /\ (HardSubmitKey /\ all # <<>>) =>
                   /\ rpc' = "returned"
                   /\ ret' = RawSubmit(all)
             /\ (HardSubmitKey /\ all = <<>>) =>
                   /\ rpc' = "reading"
                   /\ buffer' = <<>>
      ]_vars

(***************************************************************************)
(* C29: in raw mode no typed text is lost.  A printable byte read joins    *)
(* the end of the current line, after all that was typed before it; a key  *)
(* other than Backspace and Ctrl+C removes no printable byte; a block      *)
(* returned holds, in the order typed, the printable bytes typed and not   *)
(* removed.                                                                *)
(***************************************************************************)
IsPrintable(c) == c \in Printable

Kept(s) == SelectSeq(s, IsPrintable)

C29_NoTypedTextLost ==
    [][ KeyRead =>
          LET before == Kept(buffer \o lineBuffer)
              after == Kept(buffer' \o lineBuffer')
          IN /\ ch' \in Printable =>
                   /\ rpc' = "reading"
                   /\ lineBuffer' # <<>>
                   /\ lineBuffer'[Len(lineBuffer')] = ch'
                   /\ after = Append(before, ch')
             /\ (ch' \notin Printable \cup {"BS", "^C"} /\ rpc' = "reading") =>
                   after = before
             /\ (ch' \notin Printable /\ rpc' = "returned"
                 /\ ret'.err = "nil" /\ ~ret'.shouldExit) =>
                   Kept(ret'.text) = before
             /\ (ch' = "BS" /\ before # <<>>) =>
                   after \in {before, SubSeq(before, 1, Len(before) - 1)}
      ]_vars

(***************************************************************************)
(* C30: in the balance-heuristic reader a line of a block (a first line    *)
(* that is a control command aside) never completes the block when, once   *)
(* trimmed, it is blank, ends with '{' or ',' or starts with '//'; any     *)
(* other line completes the block exactly when the text accumulated with   *)
(* it has no more '{' than '}' and no more '(' than ')', and the block     *)
(* returned is that text.                                                  *)
(***************************************************************************)
KeepsReading(l) ==
    LET trimmed == TrimSpace(l)
    IN \/ trimmed = <<>>
       \/ HasSuffix(trimmed, "{")
       \/ HasSuffix(trimmed, ",")
       \/ HasPrefix(trimmed, "//")

C30_CompletionRule ==
    [][ (PkgLineRead /\ ~(blockLines = <<>> /\ IsCommand(curLine'))) =>
          LET acc == Join(Append(blockLines, curLine'))
          IN IF KeepsReading(curLine') \/ isIncompleteBlock(acc)
             THEN /\ rpc' = "reading"
                  /\ blockLines' = Append(blockLines, curLine')
             ELSE /\ rpc' = "returned"
                  /\ ret' = [text |-> acc, shouldExit |-> FALSE, err |-> "nil"]
      ]_vars

(***************************************************************************)
(* C31: in every state of the Run loop the blocks of the workspace are,    *)
(* in order, among the entries of the history.  A block is the last entry  *)
(* of the history when it is evaluated, whatever the evaluation returns;   *)
(* the workspace list grows only by the block just evaluated with          *)
(* success; the history and the workspace list are emptied together, by    *)
(* clear.                                                                  *)
(***************************************************************************)
C31_WorkspaceWithinHistory ==
    /\ [] IsSubseq(codeBlocks, history)
    /\ [][ (pc = "eval" /\ pc' # pc) =>
              /\ history # <<>>
              /\ history[Len(history)] = codeBlock
              /\ history' = history
              /\ codeBlocks' = codeBlocks ]_vars
    /\ [][ codeBlocks' # codeBlocks =>
              \/ codeBlocks' = <<>> /\ history' = <<>>
              \/ /\ codeBlocks' = Append(codeBlocks, codeBlock)
                 /\ evalLog # <<>>
                 /\ evalLog[Len(evalLog)] = [code |-> codeBlock, ok |-> TRUE]
                 /\ history' = history ]_vars
    /\ [][ history' # history =>
              \/ history' = <<>> /\ codeBlocks' = <<>>
              \/ /\ pc' = "eval"
                 /\ history' = Append(history, codeBlock')
                 /\ codeBlocks' = codeBlocks ]_vars

C31_Witness ==
    /\ pc = "read"
    /\ Len(history) = 2
    /\ Len(codeBlocks) = 1
    /\ codeBlocks[1] = history[2]
    /\ Len(evalLog) = 2
    /\ ~evalLog[1].ok

(***************************************************************************)
(* C32: a reload that fails leaves the shell's interpreter as it was; the  *)
(* interpreter is replaced by the new one only when every block of the     *)
(* session evaluated on it without error.  The interpreter changes only    *)
(* by such a reload or by the evaluation of a submitted block, and every   *)
(* submitted block is evaluated on the interpreter the shell holds then.   *)
(***************************************************************************)
ReloadDone == out' \in {"reloaded", "reloadError"} /\ out' # out

C32_FailedReloadKeepsInterpreter ==
    /\ [][ ReloadDone =>
              LET r == Replay(NewInterpreter, codeBlocks, <<>>)
              IN /\ out' = "reloaded" <=> r.ok
                 /\ interpreter' = IF r.ok THEN r.interp ELSE interpreter
         ]_vars
    /\ [][ interpreter' # interpreter =>
              \/ out' = "reloaded" /\ out' # out
              \/ pc = "eval" /\ interpreter' = Eval(interpreter, codeBlock).interp
         ]_vars
    /\ [][ (pc = "eval" /\ pc' # pc) =>
              /\ interpreter' = Eval(interpreter, codeBlock).interp
              /\ evalLog'[Len(evalLog')].ok = Eval(interpreter, codeBlock).ok
         ]_vars

C32_Witness ==
    /\ out = "reloadError"
    /\ pc = "read"
    /\ codeBlocks = << <<"fmt.Println(x)">> >>
    /\ interpreter = {"x"}
    /\ Eval(interpreter, <<"fmt.Println(x)">>).ok
    /\ ~Eval(NewInterpreter, <<"fmt.Println(x)">>).ok

(***************************************************************************)
(* C33: the clear command empties the history and the workspace list and   *)
(* leaves the interpreter as it is, through the removal of the session     *)
(* file too; a name defined in the interpreter stops being defined only    *)
(* by a successful reload, so a block evaluated after clear still sees the *)
(* definitions made before it.                                             *)
(***************************************************************************)
ClearDispatched == Dispatch /\ FirstToken(TrimSpace(ret.text)) = "clear"

C33_ClearKeepsInterpreter ==
    /\ [][ ClearDispatched =>
              /\ history' = <<>>
              /\ codeBlocks' = <<>>
              /\ interpreter' = interpreter
              /\ pc' = "remove" ]_vars
    /\ [][ (pc = "remove" /\ pc' # pc) =>
              /\ interpreter' = interpreter
              /\ history' = <<>>
              /\ codeBlocks' = <<>>
              /\ out' \in {"cleared", "clearError"} ]_vars
    /\ [][ (\E n \in interpreter : n \notin interpreter') =>
              out' = "reloaded" /\ out' # out ]_vars

C33_Witness ==
    /\ pc = "add"
    /\ history = << <<"fmt.Println(x)">> >>
    /\ codeBlocks = <<>>
    /\ ~file.exists
    /\ evalLog = << [code |-> <<"fmt.Println(x)">>, ok |-> TRUE] >>
    /\ "x" \in interpreter

(***************************************************************************)
(* C34: Clear empties the in-memory list whatever os.Remove returns.  When *)
(* the removal fails Clear returns an error and the session file is what   *)
(* it was, old blocks included; when the session has no file Clear         *)
(* returns no error; when Clear returns no error no session file exists.   *)
(***************************************************************************)
ClearCalled == call'.n # call.n /\ call'.op = "Clear"

C34_ClearRemoveFailure ==
    [][ ClearCalled =>
          /\ codeBlocks' = <<>>
          /\ call'.err => file.exists /\ file' = file
          /\ ~file.exists => ~call'.err /\ file' = file
          /\ ~call'.err => ~file'.exists
      ]_vars

C34_Witness ==
    /\ call.op = "Clear"
    /\ call.err
    /\ call.prev = "AddCodeBlock"
    /\ codeBlocks = <<>>
    /\ file = FileOf(SessionContent(<< <<"x := 1">> >>))

(***************************************************************************)
(* C35: the exit prompt runs at most once in a process: at no time have    *)
(* both the main goroutine and the signal handler entered                  *)
(* promptForCLIGeneration, and once a tool is written no second one is.    *)
(***************************************************************************)
InPrompt(t) == ppc[t] # "idle"

C35_PromptAtMostOnce ==
    /\ [](Cardinality({t \in Threads : InPrompt(t)}) <= 1)
    /\ [][ tools' # tools => tools = <<>> ]_vars

(***************************************************************************)
(* C36: in piped mode, when the input ends while lines are accumulated     *)
(* and no empty line closed them, the reader returns the end of input and  *)
(* no text; a text is returned only at an empty line that closes it, or   *)
(* as a first line; Run then goes to the exit prompt, and from the end of  *)
(* input on nothing is evaluated, added to the history, added to the       *)
(* workspace or written to the session file.                               *)
(***************************************************************************)
InputEnded ==
    /\ pc = "buffered" /\ rpc = "reading"
    /\ rpc' = "returned"
    /\ ret'.err = "EOF"

BlockReturned ==
    /\ pc = "buffered" /\ rpc = "reading"
    /\ rpc' = "returned"
    /\ ret'.err = "nil" /\ ~ret'.shouldExit

AfterInputEnded == ret.err = "EOF" /\ pc \in {"buffered", "prompt", "done"}

C36_UnterminatedLinesDiscarded ==
    /\ [][ InputEnded =>
              /\ ret'.text = <<>> /\ ~ret'.shouldExit
              /\ UNCHANGED <<evalLog, history, codeBlocks, file>> ]_vars
    /\ [][ BlockReturned =>
              \/ TrimSpace(curLine') = <<>> /\ ret'.text = Join(blockLines)
              \/ firstLine /\ ret'.text = curLine' ]_vars
    /\ [][ (pc = "buffered" /\ rpc = "returned" /\ ret.err = "EOF"
            /\ rpc' = "idle") =>
              /\ pc' = "prompt"
              /\ ppc'["main"] = "check"
              /\ alive' ]_vars
    /\ [][ AfterInputEnded =>
              /\ UNCHANGED <<evalLog, history, codeBlocks, file, interpreter>>
              /\ pc' \in {"buffered", "prompt", "done"} ]_vars

C36_Witness ==
    /\ ~isTerminal
    /\ ret.err = "EOF"
    /\ blockLines = << <<"x := 1">>, <<"fmt.Println(x)">> >>
    /\ ppc["main"] = "done"
    /\ ~alive
    /\ evalLog = <<>>
    /\ history = <<>>
    /\ ~file.exists

C38_BackspaceWithinLine ==
    [][ (KeyRead /\ ch' = "BS") =>
          /\ buffer' = buffer
          /\ lineBuffer' = IF lineBuffer = <<>> THEN <<>>
                           ELSE SubSeq(lineBuffer, 1, Len(lineBuffer) - 1)
          /\ rpc' = "reading"
          /\ ret' = ret
      ]_vars

C38_Witness ==
    /\ pc = "raw" /\ rpc = "reading"
    /\ ch = "BS"
    /\ prevChar = "BS"
    /\ buffer = <<"x", "\n">>
    /\ lineBuffer = <<>>
    /\ nread = 5

====
